---- MODULE Spec2Model ----
(***************************************************************************)
(* A model of the job orchestrator of src/tittle.py: the retry executor    *)
(* (execute_with_retries), the resource-guarded executor                   *)
(* (memory_safe_operation), the continuation store (save_last_run,         *)
(* get_next_account), the account job pipeline (process_single_account)    *)
(* and the scheduler loop with its supervisor (main_loop,                  *)
(* run_bot_with_restart).                                                  *)
(*                                                                         *)
(* Specifications:                                                         *)
(*   SpecRetry  execute_with_retries alone, over an arbitrary operation    *)
(*   Spec       the scheduler, the guard, the pipeline and the stores      *)
(*   SpecLive   Spec with the fairness the liveness properties need        *)
(*   SpecCaption  clean_caption_file on the texts of a caption file        *)
(*   SpecDisk     process_single_account as the files of BASE_DIR see it   *)
(*   SpecRewrite  enhance_caption_with_gemini and the end of               *)
(*                extract_caption, for every behaviour of the service      *)
(*   SpecLoad     load_account_config on the files of an account directory *)
(*   SpecPublish  the caption file from phase 3 to the upload's caption    *)
(*                step                                                     *)
(***************************************************************************)
EXTENDS Integers, Sequences, FiniteSets, TLC

VARIABLES
    rx,         \* the frame of the phase-level execute_with_retries call
    guard,      \* the frame of the memory_safe_operation call of the tick
    dl,         \* the frame of execute_with_retries inside download_reel_video
    fleet,      \* account_dirs: the sorted account directories this tick's
                \* listing of COMBO_DIR found; it is not read after the
                \* selection and is <<>> once the pipeline has started
    store,      \* the content of LAST_RUN_FILE
    spc,        \* where run_bot_with_restart / main_loop stands
    hb,         \* what update_healthcheck did in this tick
    account,    \* next_account of this tick (0: none yet)
    lastRan,    \* until this tick's pipeline starts, the latest earlier tick
                \* that ran the pipeline: its account, what save_last_run did
                \* in it ("none": not called, "failed", "written"), and
                \* whether its pipeline returned True
    job,        \* the frame of the process_single_account call
    stopping,   \* the stop signal being unwound: "no", "kbd" or "cancel"
    sent,       \* the notifications main_loop, run_bot_with_restart and
                \* handle_signal sent since the tick began or main_loop was
                \* entered
    nap,        \* the seconds of the sleep the scheduler is in (0: not asleep)
    disk        \* the files of BASE_DIR and of the account directory that
                \* the file functions (clean_caption_file, clean_temp_files,
                \* save_screenshot, extract_caption, load_account_config,
                \* upload_reel_to_instagram) work on, in the specifications
                \* of those functions

mainVars == <<dl, fleet, store, spc, hb, account, lastRan, job,
              stopping, sent, nap, disk>>
vars == <<rx, guard, dl, fleet, store, spc, hb, account, lastRan, job, stopping,
          sent, nap, disk>>

(***************************************************************************)
(* Bounds of the model and constants of the program.                       *)
(***************************************************************************)

\* largest max_retries argument explored for execute_with_retries
MaxAttempts == 4

\* most stop signals delivered within one tick
MaxSignals == 1

\* tittle.py:63
MAX_MEMORY_RETRIES == 3

\* tittle.py:64
MEMORY_RETRY_DELAY == 60

\* the delay arguments the program passes (tittle.py:565, 888, 942)
Delays == {5, 10, 15}

\* tittle.py:59-60
MIN_CYCLE_DELAY == 3
MAX_CYCLE_DELAY == 16

\* random.randint(MIN_CYCLE_DELAY, MAX_CYCLE_DELAY) (tittle.py:1000)
CycleDelays == MIN_CYCLE_DELAY..MAX_CYCLE_DELAY

\* asyncio.sleep(300) of the empty fleet (tittle.py:972)
EmptyFleetSleep == 300

\* asyncio.sleep(60) of main_loop's except Exception (tittle.py:1009)
FatalCooldown == 60

\* asyncio.sleep(60) of run_bot_with_restart's except Exception (tittle.py:1024)
CrashCooldown == 60

(***************************************************************************)
(* Values: what an operation returns or raises.                            *)
(***************************************************************************)

\* last_error = None (tittle.py:76), and "no result yet"
NoError == [tag |-> "none"]

\* a value returned by an operation
Val(v) == [tag |-> "val", val |-> v]

\* the exception raised by invocation number n of the operation; kind is
\* "Exception" (an ordinary failure) or "MemoryError" (a subclass of Exception)
Err(kind, n) == [tag |-> "error", kind |-> kind, call |-> n]

\* Exception(f"All {max_retries} attempts failed ...") of tittle.py:88
GenericError == [tag |-> "error", kind |-> "Exception", call |-> 0]

RECURSIVE SeqSum(_)
SeqSum(s) == IF s = <<>> THEN 0 ELSE Head(s) + SeqSum(Tail(s))

\* 1 + 2 + ... + k
RECURSIVE SumTo(_)
SumTo(k) == IF k <= 0 THEN 0 ELSE k + SumTo(k - 1)

(***************************************************************************)
(* execute_with_retries (tittle.py:75-88) as a function on its frame.      *)
(***************************************************************************)

RecordError_KeepFirst(last, e) == IF last = NoError THEN e ELSE last

\* last_error = e
RecordError(last, e) == e

BackoffDelay_Constant(delay, attempt) == delay

\* delay * attempt
BackoffDelay(delay, attempt) == delay * attempt

MoreAttempts_Inclusive(attempt, max_retries) == attempt <= max_retries

\* if attempt < max_retries
MoreAttempts(attempt, max_retries) == attempt < max_retries

\* raise last_error if last_error else Exception(...)
RaisedAfterLoop(last) == IF last # NoError THEN last ELSE GenericError

IdleRetry ==
    [pc |-> "idle", max_retries |-> 0, delay |-> 0, attempt |-> 0,
     last_error |-> NoError, calls |-> 0, sleeps |-> <<>>, result |-> NoError]

\* entry: last_error = None; the for loop runs no iteration when max_retries < 1
RetryStart(max_retries, delay) ==
    [pc |-> IF 1 <= max_retries THEN "call" ELSE "exhausted",
     max_retries |-> max_retries, delay |-> delay, attempt |-> 1,
     last_error |-> NoError, calls |-> 0, sleeps |-> <<>>, result |-> NoError]

\* result = await operation(); return result
RetryOnReturn(f, v) ==
    [f EXCEPT !.pc = "returned", !.result = Val(v), !.calls = @ + 1]

\* the next iteration of `for attempt in range(1, max_retries + 1)`, or the
\* end of the loop
RetryLoopNext(f) ==
    [f EXCEPT !.attempt = @ + 1,
              !.pc = IF f.attempt + 1 <= f.max_retries THEN "call"
                     ELSE "exhausted"]

\* except Exception as e: last_error = e; sleep if attempts remain
RetryOnRaise(f, kind) ==
    LET e == Err(kind, f.calls + 1)
        g == [f EXCEPT !.last_error = RecordError(@, e), !.calls = @ + 1]
    IN  IF MoreAttempts(f.attempt, f.max_retries)
        THEN [g EXCEPT !.pc = "sleep"]
        ELSE RetryLoopNext(g)

\* await asyncio.sleep(delay * attempt), then the next iteration
RetryAfterSleep(f) ==
    RetryLoopNext([f EXCEPT !.sleeps =
                               Append(@, BackoffDelay(f.delay, f.attempt))])

\* the raise after the loop
RetryRaise(f) ==
    [f EXCEPT !.pc = "raised", !.result = RaisedAfterLoop(f.last_error)]

(***************************************************************************)
(* memory_safe_operation (tittle.py:119-132) as a function on its frame.   *)
(* events is the trace of what the executor did: "call", <<"sleep", d>>,   *)
(* "gc".                                                                   *)
(***************************************************************************)

IdleGuard ==
    [pc |-> "idle", attempt |-> 0, events |-> <<>>, result |-> NoError]

GuardStart ==
    [pc |-> "call", attempt |-> 1, events |-> <<>>, result |-> NoError]

\* the operation is awaited
GuardInvoke(g) == [g EXCEPT !.events = Append(@, <<"call", g.attempt>>)]

\* return result
GuardOnReturn(g, v) == [g EXCEPT !.pc = "returned", !.result = Val(v)]

GuardRetriesLeft_Inclusive(attempt) == attempt <= MAX_MEMORY_RETRIES

\* if attempt < MAX_MEMORY_RETRIES
GuardRetriesLeft(attempt) == attempt < MAX_MEMORY_RETRIES

\* except MemoryError: sleep and collect if attempts remain, else raise
GuardOnMemoryError(g, e) ==
    IF GuardRetriesLeft(g.attempt)
    THEN [g EXCEPT !.pc = "sleep"]
    ELSE [g EXCEPT !.pc = "raised", !.result = e]

GuardOnException_Retry(g, e) == GuardOnMemoryError(g, e)

\* except Exception as e: raise e
GuardOnException(g, e) == [g EXCEPT !.pc = "raised", !.result = e]

GuardDelay_NextAttempt(attempt) == MEMORY_RETRY_DELAY * (attempt + 1)

\* MEMORY_RETRY_DELAY * attempt
GuardDelay(attempt) == MEMORY_RETRY_DELAY * attempt

\* await asyncio.sleep(MEMORY_RETRY_DELAY * attempt)
GuardAfterSleep(g) ==
    [g EXCEPT !.pc = "gc",
              !.events = Append(@, <<"sleep", GuardDelay(g.attempt)>>)]

\* gc.collect(), then the next iteration
GuardAfterCollect(g) ==
    [g EXCEPT !.pc = "call", !.attempt = @ + 1,
              !.events = Append(@, <<"gc", g.attempt>>)]

(***************************************************************************)
(* The continuation store (tittle.py:229-250).  An account is the number   *)
(* of its directory name in sorted order; 0 stands for None.  The file is  *)
(* missing, unreadable as JSON, a JSON object without "last_account", or   *)
(* the record {"last_account": a, ...}.                                    *)
(***************************************************************************)

\* the accounts that may have a directory under COMBO_DIR
NumAccounts == 3

Accounts == 1..NumAccounts

StoreMissing == [kind |-> "missing", last_account |-> 0]
StoreCorrupt == [kind |-> "corrupt", last_account |-> 0]
StoreNoField == [kind |-> "nofield", last_account |-> 0]

\* json.dump({"last_account": account_name, "timestamp": ...}, f)
Rec(a) == [kind |-> "rec", last_account |-> a]

StoreStates ==
    {StoreMissing, StoreCorrupt, StoreNoField} \cup {Rec(a) : a \in Accounts}

\* sorted(os.listdir(COMBO_DIR)): every ascending sequence of distinct accounts
RECURSIVE Ascending(_)
Ascending(S) ==
    IF S = {} THEN <<>>
    ELSE LET m == CHOOSE x \in S : \A y \in S : x <= y
         IN  <<m>> \o Ascending(S \ {m})

Fleets == {Ascending(S) : S \in SUBSET Accounts}

LastIndex_OneBased(account_dirs, last_account) ==
    IF \E i \in 1..Len(account_dirs) : account_dirs[i] = last_account
    THEN CHOOSE i \in 1..Len(account_dirs) : account_dirs[i] = last_account
    ELSE -1

\* next((i for i, d in enumerate(account_dirs) if basename(d) == last_account), -1)
LastIndex(account_dirs, last_account) ==
    IF \E i \in 1..Len(account_dirs) : account_dirs[i] = last_account
    THEN (CHOOSE i \in 1..Len(account_dirs) :
              /\ account_dirs[i] = last_account
              /\ \A j \in 1..(i - 1) : account_dirs[j] # last_account) - 1
    ELSE -1

NextIndex_Same(last_index, n) == last_index % n

\* next_index = (last_index + 1) % len(account_dirs)
NextIndex(last_index, n) == (last_index + 1) % n

get_next_account_First(account_dirs, st) == account_dirs[1]

get_next_account_NoDefault(account_dirs, st) ==
    IF st.kind = "rec" /\ st.last_account # 0
    THEN LET last_index == LastIndex(account_dirs, st.last_account)
         IN  IF last_index >= 0
             THEN account_dirs[NextIndex(last_index, Len(account_dirs)) + 1]
             ELSE 0
    ELSE 0

\* get_next_account (tittle.py:236-250); account_dirs[k] is the sequence's k+1
get_next_account(account_dirs, st) ==
    LET first == IF account_dirs # <<>> THEN account_dirs[1] ELSE 0
    IN  IF st.kind = "rec" /\ st.last_account # 0
        THEN LET last_index == LastIndex(account_dirs, st.last_account)
             IN  IF last_index >= 0
                 THEN account_dirs[NextIndex(last_index, Len(account_dirs)) + 1]
                 ELSE first
        ELSE first

SaveTarget_Stale(account_name, st) == st

\* the record save_last_run(account_name) dumps (tittle.py:231-232)
SaveTarget(account_name, st) == Rec(account_name)

\* what LAST_RUN_FILE may hold after save_last_run(account_name): the new
\* record, or, when open() or json.dump() raised (tittle.py:233-234), the old
\* content or a truncated file
SaveOutcomes(account_name, st) ==
    {[ok |-> TRUE, store |-> SaveTarget(account_name, st)],
     [ok |-> FALSE, store |-> st],
     [ok |-> FALSE, store |-> StoreCorrupt]}

(***************************************************************************)
(* process_single_account (tittle.py:827-955).  The phases are numbered    *)
(* 1 AcquireTarget, 2 FetchAsset, 3 ExtractMetadata, 4 TransformAsset,     *)
(* 5 Publish.                                                              *)
(***************************************************************************)

Phases == 1..5

\* the phases the pipeline runs through execute_with_retries (884, 926, 938)
Wrapped == {2, 4, 5}

\* max_retries= of tittle.py:887, 929, 941
PhaseMaxRetries(p) == 2

\* delay= of tittle.py:888, 930, 942
PhaseDelay(p) == IF p = 5 THEN 15 ELSE 10

\* max_retries=3, delay=5 of the download inside download_reel_video (564-565)
DownloadMaxRetries == 3
DownloadDelay == 5

\* How a phase ended:
\*   "ok"        it did its work
\*   "swallowed" extract_caption caught its own error and returned the
\*               default caption (341-343); the phase goes on as if it had
\*               succeeded
\*   "false"     the phase took a `return False` (browser launch, navigation,
\*               login page, no video, operation returned False)
\*   "caught"    the phase's own `except Exception` (871, 916) returned False
\*   "unhandled" an exception reached `except Exception` of line 947
FailureOutcomes == {"false", "caught", "unhandled"}

\* what the unwrapped phases 1 (842-881) and 3 (896-923) can end with
DirectOutcomes(p) ==
    IF p = 3 THEN {"ok", "swallowed", "false", "caught", "unhandled"}
    ELSE {"ok", "false", "caught", "unhandled"}

\* what one invocation of a wrapped phase's operation can do: return True,
\* return False, or raise.  process_video_with_ffmpeg (384-469) catches every
\* exception; upload_reel_to_instagram (650-825) raises only from its finally.
OpOutcomes(p) == IF p = 4 THEN {"true", "false"} ELSE {"true", "false", "raise"}

ErrorKinds == {"Exception", "MemoryError"}

Truthy_Always(result) == TRUE

\* `if not download_success`, `if not process_success`, `return upload_success`
Truthy(result) == result.val

\* IdleJob.error is the exception an except clause inside
\* process_single_account caught when it made the job return False (871, 916,
\* 947); IdleJob.raised is the exception that left process_single_account.

\* no tick has run the pipeline yet
NoRun == [account |-> 0, save |-> "none", ok |-> FALSE]

IdleJob ==
    [pc |-> "idle", phase |-> 0, started |-> <<>>,
     outcome |-> [p \in Phases |-> "none"],
     attempts |-> [p \in Phases |-> 0],
     result |-> FALSE, exit |-> "none", saveFor |-> 0, written |-> FALSE,
     error |-> NoError, raised |-> NoError]

\* the call: gc.collect(), load_account_config, the start notification
NewJob == [IdleJob EXCEPT !.pc = "prologue"]

JobReturnFrom_NoFinalizer(j, exit, result) ==
    [j EXCEPT !.pc = "done", !.exit = exit, !.result = result]

\* return False / return upload_success inside the try: the finalizer is next
JobReturnFrom(j, exit, result) ==
    [j EXCEPT !.pc = "fin_clean", !.exit = exit, !.result = result]

PhaseFail_Continue(j, p, how, n) ==
    [j EXCEPT !.outcome[p] = how, !.attempts[p] = n,
              !.pc = IF p = 5 THEN "fin_clean" ELSE "start",
              !.phase = IF p = 5 THEN 5 ELSE p + 1,
              !.exit = IF p = 5 THEN "phase_failed" ELSE @]

\* phase p failed after n invocations of its operation: return False
PhaseFail(j, p, how, n) ==
    JobReturnFrom([j EXCEPT !.outcome[p] = how, !.attempts[p] = n],
                  IF how = "unhandled" THEN "unhandled" ELSE "phase_failed",
                  FALSE)

PhasePass_Skip(j, p, how, n) ==
    IF p >= 4
    THEN JobReturnFrom([j EXCEPT !.outcome[p] = how, !.attempts[p] = n],
                       "success", TRUE)
    ELSE [j EXCEPT !.outcome[p] = how, !.attempts[p] = n,
                   !.phase = p + 2, !.pc = "start"]

\* phase p went through: the next phase, or return True after phase 5
PhasePass(j, p, how, n) ==
    IF p = 5
    THEN JobReturnFrom([j EXCEPT !.outcome[p] = how, !.attempts[p] = n],
                       "success", TRUE)
    ELSE [j EXCEPT !.outcome[p] = how, !.attempts[p] = n,
                   !.phase = p + 1, !.pc = "start"]

(***************************************************************************)
(* Spec: run_bot_with_restart, main_loop, memory_safe_operation and        *)
(* process_single_account together.                                        *)
(***************************************************************************)

Init ==
    /\ fleet = <<>>
    /\ store \in StoreStates
    /\ spc = "boot"
    /\ hb = "none"
    /\ account = 0
    /\ lastRan = NoRun
    /\ job = IdleJob
    /\ stopping = "no"
    /\ sent = <<>>
    /\ nap = 0
    /\ rx = IdleRetry
    /\ dl = IdleRetry
    /\ guard = IdleGuard
    /\ disk = [kind |-> "none"]

\* main_loop entry (958-959): the start notification, then the first tick
Boot ==
    /\ spc = "boot"
    /\ spc' = "tick"
    /\ sent' = <<"started">>
    /\ hb' = "none"
    /\ UNCHANGED <<disk, rx, guard, dl, fleet, store, account, lastRan, job, stopping,
                   nap>>

Heartbeat_Skip ==
    /\ spc = "tick"
    /\ spc' = "list"
    /\ sent' = <<>>
    /\ UNCHANGED <<disk, rx, guard, dl, fleet, store, hb, account, lastRan, job,
                   stopping, nap>>

\* a tick begins with update_healthcheck (67-72): the write, or the logged
\* failure of the write
Heartbeat ==
    /\ spc = "tick"
    /\ hb' \in {"written", "failed"}
    /\ spc' = "list"
    /\ sent' = <<>>
    /\ UNCHANGED <<disk, rx, guard, dl, fleet, store, account, lastRan, job, stopping,
                   nap>>

\* os.listdir(COMBO_DIR) raises: except Exception of line 1006 logs,
\* notifies and sleeps 60 seconds
ListFails ==
    /\ spc = "list"
    /\ spc' = "sleep_cooldown"
    /\ sent' = Append(sent, "fatal")
    /\ nap' = FatalCooldown
    /\ UNCHANGED <<disk, rx, guard, dl, fleet, store, hb, account, lastRan, job,
                   stopping>>

TickEmptyFleet_Resets ==
    /\ spc = "list"
    /\ fleet' = <<>>
    /\ spc' = "sleep_empty"
    /\ sent' = Append(sent, "no_accounts")
    /\ nap' = EmptyFleetSleep
    /\ store' = StoreMissing
    /\ UNCHANGED <<disk, rx, guard, dl, hb, account, lastRan, job, stopping>>

\* the listing of COMBO_DIR (964-968) finds no directory: if not
\* account_dirs (969-973) notifies and sleeps 300 seconds
TickEmptyFleet ==
    /\ spc = "list"
    /\ fleet' = <<>>
    /\ spc' = "sleep_empty"
    /\ sent' = Append(sent, "no_accounts")
    /\ nap' = EmptyFleetSleep
    /\ UNCHANGED <<disk, rx, guard, dl, store, hb, account, lastRan, job, stopping>>

\* the listing of COMBO_DIR (964-968) finds directories;
\* next_account = get_next_account(account_dirs), then memory_safe_operation
\* is entered (975-989)
TickSelect ==
    /\ spc = "list"
    /\ \E account_dirs \in Fleets \ {<<>>} :
          /\ fleet' = account_dirs
          /\ account' = get_next_account(account_dirs, store)
    /\ guard' = GuardStart
    /\ job' = IdleJob
    /\ spc' = "run"
    /\ UNCHANGED <<disk, rx, dl, store, hb, lastRan, stopping, sent, nap>>

JobBegin_Overlap ==
    /\ spc = "run"
    /\ guard.pc = "call"
    /\ guard' = GuardInvoke(guard)
    /\ job' = NewJob
    /\ lastRan' = NoRun
    /\ fleet' = <<>>
    /\ UNCHANGED <<disk, rx, dl, store, spc, hb, account, stopping, sent, nap>>

\* memory_safe_operation awaits process_single_account(next_account); the
\* call before it, if any, is over
JobBegin ==
    /\ spc = "run"
    /\ guard.pc = "call"
    /\ job.pc \in {"idle", "done"}
    /\ guard' = GuardInvoke(guard)
    /\ job' = NewJob
    /\ lastRan' = NoRun
    /\ fleet' = <<>>
    /\ UNCHANGED <<disk, rx, dl, store, spc, hb, account, stopping, sent, nap>>

\* load_account_config returned a config; clean_temp_files (838); phase 1 next
PrologueLoaded ==
    /\ job.pc = "prologue"
    /\ job' = [job EXCEPT !.pc = "start", !.phase = 1]
    /\ UNCHANGED <<disk, rx, guard, dl, fleet, store, spc, hb, account, lastRan, stopping, sent, nap>>

\* load_account_config returned None: return False (835-837)
PrologueConfigFails ==
    /\ job.pc = "prologue"
    /\ job' = JobReturnFrom(job, "config_failed", FALSE)
    /\ UNCHANGED <<disk, rx, guard, dl, fleet, store, spc, hb, account, lastRan, stopping, sent, nap>>

\* an allocation of lines 828-833 raises MemoryError: the try of line 834 is
\* not entered, so no finally runs, and memory_safe_operation sees the error
PrologueMemoryError ==
    /\ job.pc = "prologue"
    /\ job' = [job EXCEPT !.pc = "done", !.exit = "escaped",
                          !.raised = Err("MemoryError", guard.attempt)]
    /\ guard' = GuardOnMemoryError(guard, Err("MemoryError", guard.attempt))
    /\ UNCHANGED <<disk, rx, dl, fleet, store, spc, hb, account, lastRan, stopping, sent, nap>>

\* a phase starts; a wrapped phase enters execute_with_retries
PhaseStart ==
    /\ job.pc = "start"
    /\ job' = [job EXCEPT !.pc = "in", !.started = Append(@, job.phase)]
    /\ rx' = IF job.phase \in Wrapped
             THEN RetryStart(PhaseMaxRetries(job.phase), PhaseDelay(job.phase))
             ELSE IdleRetry
    /\ dl' = IdleRetry
    /\ UNCHANGED <<disk, guard, fleet, store, spc, hb, account, lastRan, stopping, sent, nap>>

\* phases 1 and 3, which the pipeline runs once, without execute_with_retries
PhaseDirectEnd ==
    /\ job.pc = "in"
    /\ job.phase \notin Wrapped
    /\ \E how \in DirectOutcomes(job.phase) :
          IF how \in {"caught", "unhandled"}
          THEN \E kind \in ErrorKinds :
                  job' = [PhaseFail(job, job.phase, how, 1)
                              EXCEPT !.error = Err(kind, 1)]
          ELSE job' = IF how \in FailureOutcomes
                      THEN PhaseFail(job, job.phase, how, 1)
                      ELSE PhasePass(job, job.phase, how, 1)
    /\ UNCHANGED <<disk, rx, guard, dl, fleet, store, spc, hb, account, lastRan, stopping, sent, nap>>

\* one invocation of process_video_with_ffmpeg or upload_reel_to_instagram
PhaseOpAttempt ==
    /\ job.pc = "in"
    /\ job.phase \in Wrapped \ {2}
    /\ rx.pc = "call"
    /\ \E out \in OpOutcomes(job.phase) :
          \/ /\ out = "true"
             /\ rx' = RetryOnReturn(rx, TRUE)
          \/ /\ out = "false"
             /\ rx' = RetryOnReturn(rx, FALSE)
          \/ /\ out = "raise"
             /\ \E kind \in ErrorKinds : rx' = RetryOnRaise(rx, kind)
    /\ UNCHANGED <<disk, guard, dl, fleet, store, spc, hb, account, lastRan, job, stopping, sent, nap>>

\* download_reel_video up to the download (471-542): it returns False (no
\* browser, no config, navigation failed, no video URL, or an exception caught
\* at 593), raises (async_playwright() or browser.close() failed), or goes on
\* to execute_with_retries(download_operation, 3, 5)
DlBegin ==
    /\ job.pc = "in"
    /\ job.phase = 2
    /\ rx.pc = "call"
    /\ dl.pc = "idle"
    /\ \/ /\ rx' = RetryOnReturn(rx, FALSE)
          /\ dl' = dl
       \/ /\ \E kind \in ErrorKinds : rx' = RetryOnRaise(rx, kind)
          /\ dl' = dl
       \/ /\ dl' = RetryStart(DownloadMaxRetries, DownloadDelay)
          /\ rx' = rx
    /\ UNCHANGED <<disk, guard, fleet, store, spc, hb, account, lastRan, job, stopping, sent, nap>>

\* download_operation (544-559): True, or an exception (HTTP status, too small)
DlAttempt ==
    /\ dl.pc = "call"
    /\ \/ dl' = RetryOnReturn(dl, TRUE)
       \/ \E kind \in ErrorKinds : dl' = RetryOnRaise(dl, kind)
    /\ UNCHANGED <<disk, rx, guard, fleet, store, spc, hb, account, lastRan, job, stopping, sent, nap>>

DlSleep ==
    /\ dl.pc = "sleep"
    /\ dl' = RetryAfterSleep(dl)
    /\ UNCHANGED <<disk, rx, guard, fleet, store, spc, hb, account, lastRan, job, stopping, sent, nap>>

DlExhausted ==
    /\ dl.pc = "exhausted"
    /\ dl' = RetryRaise(dl)
    /\ UNCHANGED <<disk, rx, guard, fleet, store, spc, hb, account, lastRan, job, stopping, sent, nap>>

\* the rest of download_reel_video (569-600): after a download the probe
\* decides True or False; a download that raised is caught at 593 (False);
\* browser.close() in the finally may raise instead.  After a True the frame
\* of the download stays as the record of how it went until the next phase
\* starts
DlEnd ==
    /\ dl.pc \in {"returned", "raised"}
    /\ rx.pc = "call"
    /\ \/ /\ dl.pc = "returned"
          /\ rx' = RetryOnReturn(rx, TRUE)
          /\ dl' = dl
       \/ /\ rx' = RetryOnReturn(rx, FALSE)
          /\ dl' = IdleRetry
       \/ /\ \E kind \in ErrorKinds : rx' = RetryOnRaise(rx, kind)
          /\ dl' = IdleRetry
    /\ UNCHANGED <<disk, guard, fleet, store, spc, hb, account, lastRan, job, stopping, sent, nap>>

PhaseRetrySleep ==
    /\ job.pc = "in"
    /\ rx.pc = "sleep"
    /\ rx' = RetryAfterSleep(rx)
    /\ UNCHANGED <<disk, guard, dl, fleet, store, spc, hb, account, lastRan, job, stopping, sent, nap>>

PhaseRetryExhausted ==
    /\ job.pc = "in"
    /\ rx.pc = "exhausted"
    /\ rx' = RetryRaise(rx)
    /\ UNCHANGED <<disk, guard, dl, fleet, store, spc, hb, account, lastRan, job, stopping, sent, nap>>

\* execute_with_retries is back in process_single_account: a truthy result
\* lets the pipeline go on, a falsy one returns False (892, 934, 946), and a
\* raised error reaches line 947
PhaseWrappedEnd ==
    /\ job.pc = "in"
    /\ rx.pc \in {"returned", "raised"}
    /\ LET how == IF rx.pc = "raised" THEN "unhandled"
                  ELSE IF rx.result.val THEN "ok" ELSE "false"
       IN  job' = IF rx.pc = "raised"
                  THEN [PhaseFail(job, job.phase, how, rx.calls)
                            EXCEPT !.error = rx.result]
                  ELSE IF Truthy(rx.result)
                       THEN PhasePass(job, job.phase, how, rx.calls)
                       ELSE PhaseFail(job, job.phase, how, rx.calls)
    /\ rx' = IdleRetry
    /\ UNCHANGED <<disk, guard, dl, fleet, store, spc, hb, account, lastRan, stopping, sent, nap>>

\* finally (951-953): clean_temp_files and truncate_log_file went through
FinClean ==
    /\ job.pc = "fin_clean"
    /\ job' = [job EXCEPT !.pc = "fin_save"]
    /\ UNCHANGED <<disk, rx, guard, dl, fleet, store, spc, hb, account, lastRan, stopping, sent, nap>>

\* clean_temp_files raises in the finally (os.listdir of line 182 is outside
\* any try): the rest of the finally is skipped and the exception leaves
\* process_single_account in place of its return value, or in place of the
\* stop signal's exception that was passing through the finally
FinCleanRaises ==
    /\ job.pc = "fin_clean"
    /\ \E kind \in ErrorKinds :
          /\ job' = [job EXCEPT !.pc = "done", !.exit = "escaped",
                                !.raised = Err(kind, guard.attempt)]
          /\ guard' = IF kind = "MemoryError"
                      THEN GuardOnMemoryError(guard, Err(kind, guard.attempt))
                      ELSE GuardOnException(guard, Err(kind, guard.attempt))
    /\ stopping' = "no"
    /\ UNCHANGED <<disk, rx, dl, fleet, store, spc, hb, account, lastRan, sent, nap>>

\* save_last_run(account_name) and gc.collect() (954-955), then the return to
\* memory_safe_operation, or the stop signal's exception going on upwards
FinSave ==
    /\ job.pc = "fin_save"
    /\ \E w \in SaveOutcomes(account, store) :
          /\ store' = w.store
          /\ job' = [job EXCEPT !.pc = "done", !.saveFor = account,
                                !.written = w.ok]
    /\ IF stopping = "no"
       THEN /\ guard' = GuardOnReturn(guard, job.result)
            /\ spc' = spc
       ELSE /\ guard' = IdleGuard
            /\ spc' = "unwind"
    /\ UNCHANGED <<disk, rx, dl, fleet, hb, account, lastRan, stopping, sent, nap>>

GuardSleep ==
    /\ spc = "run"
    /\ guard.pc = "sleep"
    /\ guard' = GuardAfterSleep(guard)
    /\ UNCHANGED <<disk, rx, dl, fleet, store, spc, hb, account, lastRan, job, stopping, sent, nap>>

GuardCollect ==
    /\ spc = "run"
    /\ guard.pc = "gc"
    /\ guard' = GuardAfterCollect(guard)
    /\ UNCHANGED <<disk, rx, dl, fleet, store, spc, hb, account, lastRan, job, stopping, sent, nap>>

TickEnd_Exit(raised) ==
    [notes |-> IF raised THEN <<"critical">> ELSE <<"next_cycle">>,
     state |-> IF raised THEN "terminated" ELSE "sleep_cycle",
     naps |-> IF raised THEN {0} ELSE CycleDelays]

TickEnd_Cooldown(raised) ==
    IF raised
    THEN [notes |-> <<"critical">>, state |-> "sleep_cooldown",
          naps |-> {FatalCooldown}]
    ELSE [notes |-> <<"next_cycle">>, state |-> "sleep_cycle",
          naps |-> CycleDelays]

\* the rest of the tick after memory_safe_operation returned (990-995) or
\* raised (996-998, which logs and notifies): the notification of the next
\* cycle and the randomized cycle delay (1000-1003) in both cases
TickEnd(raised) ==
    [notes |-> IF raised THEN <<"critical", "next_cycle">>
               ELSE <<"next_cycle">>,
     state |-> "sleep_cycle",
     naps |-> CycleDelays]

\* memory_safe_operation is back in main_loop; its frame and the job's are
\* gone
AfterRun ==
    /\ spc = "run"
    /\ guard.pc \in {"returned", "raised"}
    /\ LET end == TickEnd(guard.pc = "raised")
       IN  /\ spc' = end.state
           /\ sent' = sent \o end.notes
           /\ nap' \in end.naps
    /\ lastRan' = [account |-> account,
                   save |-> IF job.saveFor # account THEN "none"
                            ELSE IF job.written THEN "written" ELSE "failed",
                   ok |-> (guard.pc = "returned" /\ guard.result = Val(TRUE))]
    /\ guard' = IdleGuard
    /\ job' = IdleJob
    /\ UNCHANGED <<disk, rx, dl, fleet, store, hb, account, stopping>>

\* await asyncio.sleep(cycle_delay) (1000-1003), sleep(300) (972) and
\* sleep(60) (1009) end; the loop goes round
SleepEnds ==
    /\ spc \in {"sleep_cycle", "sleep_empty", "sleep_cooldown"}
    /\ spc' = "tick"
    /\ hb' = "none"
    /\ nap' = 0
    /\ UNCHANGED <<disk, rx, guard, dl, fleet, store, account, lastRan, job, stopping,
                   sent>>

\* an exception leaves main_loop: raised before its loop (958-959) or inside
\* its except clause (1007-1009).  run_bot_with_restart's except Exception
\* (1021-1024) logs, notifies and sleeps 60 seconds
MainLoopCrash ==
    /\ spc \in {"boot", "sleep_cooldown"}
    /\ spc' = "crashed"
    /\ sent' = Append(sent, "crashed")
    /\ nap' = CrashCooldown
    /\ UNCHANGED <<disk, rx, guard, dl, fleet, store, hb, account, lastRan, job,
                   stopping>>

SupervisorRestart_ClearsRecord ==
    /\ spc = "crashed"
    /\ spc' = "boot"
    /\ nap' = 0
    /\ sent' = <<>>
    /\ store' = StoreMissing
    /\ UNCHANGED <<disk, rx, guard, dl, fleet, hb, account, lastRan, job,
                   stopping>>

\* continue (1025): main_loop is called again
SupervisorRestart ==
    /\ spc = "crashed"
    /\ spc' = "boot"
    /\ nap' = 0
    /\ sent' = <<>>
    /\ UNCHANGED <<disk, rx, guard, dl, fleet, store, hb, account, lastRan, job,
                   stopping>>

\* how many notifications of handle_signal are in the log
SignalsSent == Cardinality({i \in 1..Len(sent) : sent[i] = "signal"})

\* Where handle_signal's KeyboardInterrupt is raised.  In synchronous code of
\* the coroutine it is raised in the coroutine ("kbd").  While the coroutine
\* is suspended in an await the main thread is in the event loop: the
\* exception leaves asyncio.run, which cancels the task, and the coroutine
\* sees CancelledError ("cancel").  The pipeline has both kinds of code.
StopModes(at) ==
    IF at \in {"boot", "tick", "list"} THEN {"kbd"}
    ELSE IF at = "run" THEN {"kbd", "cancel"}
    ELSE {"cancel"}

\* SIGTERM or SIGINT (29-35): handle_signal logs, notifies once and raises
\* KeyboardInterrupt.  Neither it nor CancelledError is an Exception.  Inside
\* the try of process_single_account the finally runs; in its prologue or its
\* finally nothing more of it runs.  The frames the exception passes through
\* are gone.
StopSignal ==
    /\ spc \notin {"unwind", "terminated"}
    /\ SignalsSent < MaxSignals
    /\ stopping' \in StopModes(spc)
    /\ sent' = Append(sent, "signal")
    /\ IF job.pc \in {"start", "in"}
       THEN /\ job' = [job EXCEPT !.pc = "fin_clean", !.exit = "interrupted"]
            /\ spc' = spc
            /\ guard' = guard
       ELSE /\ job' = IF job.pc \in {"prologue", "fin_clean", "fin_save"}
                      THEN [job EXCEPT !.pc = "done", !.exit = "interrupted"]
                      ELSE job
            /\ spc' = "unwind"
            /\ guard' = IdleGuard
    /\ nap' = 0
    /\ rx' = IdleRetry
    /\ dl' = IdleRetry
    /\ UNCHANGED <<disk, fleet, store, hb, account, lastRan>>

\* The stop signal arrives while a phase holds a browser (phases 1, 2, 3 and
\* 5) and the phase's finally (597-600, 819-825, 875-878, 920-923) fails in
\* browser.close(): that exception replaces the KeyboardInterrupt or
\* CancelledError on its way up.  In phases 2 and 5 execute_with_retries
\* catches it as a failed attempt (83); in phases 1 and 3 it reaches the
\* except Exception of line 947.
StopSignalMasked ==
    /\ spc = "run"
    /\ stopping = "no"
    /\ job.pc = "in"
    /\ job.phase # 4
    /\ SignalsSent < MaxSignals
    /\ sent' = Append(sent, "signal")
    /\ IF job.phase \in Wrapped
       THEN /\ rx.pc = "call"
            /\ rx' = RetryOnRaise(rx, "Exception")
            /\ job' = job
       ELSE /\ rx' = rx
            /\ job' = [PhaseFail(job, job.phase, "unhandled", 1)
                           EXCEPT !.error = Err("Exception", 1)]
    /\ dl' = IdleRetry
    /\ UNCHANGED <<disk, guard, fleet, store, spc, hb, account, lastRan, stopping,
                   nap>>

\* the stop signal's exception leaves main_loop (1004-1005, 1010-1011).  A
\* KeyboardInterrupt is caught by run_bot_with_restart (1017-1020), which logs,
\* notifies and breaks; a CancelledError passes through it
SupervisorStop ==
    /\ spc = "unwind"
    /\ spc' = "terminated"
    /\ sent' = IF stopping = "kbd" THEN Append(sent, "stopped") ELSE sent
    /\ UNCHANGED <<disk, rx, guard, dl, fleet, store, hb, account, lastRan, job,
                   stopping, nap>>

Next ==
    \/ Boot \/ Heartbeat \/ ListFails \/ TickEmptyFleet \/ TickSelect
    \/ JobBegin \/ PrologueLoaded \/ PrologueConfigFails \/ PrologueMemoryError
    \/ PhaseStart \/ PhaseDirectEnd \/ PhaseOpAttempt
    \/ DlBegin \/ DlAttempt \/ DlSleep \/ DlExhausted \/ DlEnd
    \/ PhaseRetrySleep \/ PhaseRetryExhausted \/ PhaseWrappedEnd
    \/ FinClean \/ FinCleanRaises \/ FinSave
    \/ GuardSleep \/ GuardCollect \/ AfterRun \/ SleepEnds
    \/ MainLoopCrash \/ SupervisorRestart
    \/ StopSignal \/ StopSignalMasked \/ SupervisorStop

Spec == Init /\ [][Next]_vars

\* every step of the program itself: all of Next but the delivery of a signal
Progress ==
    \/ Boot \/ Heartbeat \/ ListFails \/ TickEmptyFleet \/ TickSelect
    \/ JobBegin \/ PrologueLoaded \/ PrologueConfigFails \/ PrologueMemoryError
    \/ PhaseStart \/ PhaseDirectEnd \/ PhaseOpAttempt
    \/ DlBegin \/ DlAttempt \/ DlSleep \/ DlExhausted \/ DlEnd
    \/ PhaseRetrySleep \/ PhaseRetryExhausted \/ PhaseWrappedEnd
    \/ FinClean \/ FinCleanRaises \/ FinSave
    \/ GuardSleep \/ GuardCollect \/ AfterRun \/ SleepEnds
    \/ MainLoopCrash \/ SupervisorRestart \/ SupervisorStop

\* SpecLive: the program keeps taking steps (every sleep ends, every awaited
\* call returns or raises), and main_loop does not crash at its entry
\* (958-959) every time it is entered
SpecLive == Init /\ [][Next]_vars /\ WF_vars(Progress) /\ SF_vars(Boot)

(***************************************************************************)
(* SpecRetry: execute_with_retries over an operation that, at each         *)
(* invocation, returns True or False or raises.                            *)
(***************************************************************************)

InitRetry ==
    /\ \E m \in 0..MaxAttempts, d \in Delays : rx = RetryStart(m, d)
    /\ guard = IdleGuard
    /\ dl = IdleRetry
    /\ fleet = <<>>
    /\ store = StoreMissing
    /\ spc = "terminated"
    /\ hb = "none"
    /\ account = 0
    /\ lastRan = NoRun
    /\ job = IdleJob
    /\ stopping = "no"
    /\ sent = <<>>
    /\ nap = 0
    /\ disk = [kind |-> "none"]

OpReturns ==
    /\ rx.pc = "call"
    /\ \E v \in BOOLEAN : rx' = RetryOnReturn(rx, v)
    /\ UNCHANGED <<guard, mainVars>>

OpRaises ==
    /\ rx.pc = "call"
    /\ \E kind \in {"Exception", "MemoryError"} : rx' = RetryOnRaise(rx, kind)
    /\ UNCHANGED <<guard, mainVars>>

RetrySleep ==
    /\ rx.pc = "sleep"
    /\ rx' = RetryAfterSleep(rx)
    /\ UNCHANGED <<guard, mainVars>>

RetryExhausted ==
    /\ rx.pc = "exhausted"
    /\ rx' = RetryRaise(rx)
    /\ UNCHANGED <<guard, mainVars>>

NextRetry == OpReturns \/ OpRaises \/ RetrySleep \/ RetryExhausted

SpecRetry == InitRetry /\ [][NextRetry]_vars

(***************************************************************************)
(* Properties of execute_with_retries, checked under SpecRetry.            *)
(***************************************************************************)

\* C1: an operation that raised on every one of its invocations, with
\* max_retries = n >= 1, was invoked exactly n times, and the error raised to
\* the caller is the one its n-th invocation raised.
C1_RaisesLastError ==
    (rx.pc = "raised" /\ rx.max_retries >= 1)
        => /\ rx.calls = rx.max_retries
           /\ rx.result.tag = "error"
           /\ rx.result.call = rx.max_retries

C1_Witness ==
    /\ rx.pc = "raised"
    /\ rx.max_retries = 3
    /\ rx.calls = 3
    /\ rx.result.call = 3

\* C2: when the operation failed k times and then returned, with
\* max_retries > k, the executor returned that value after exactly k + 1
\* invocations, and its sleeps add up to delay * (1 + 2 + ... + k).
C2_SuccessAfterFailures ==
    rx.pc = "returned"
        => LET k == rx.calls - 1
           IN  /\ k < rx.max_retries
               /\ rx.attempt = k + 1
               /\ rx.result.tag = "val"
               /\ Len(rx.sleeps) = k
               /\ SeqSum(rx.sleeps) = rx.delay * SumTo(k)

C2_Witness ==
    /\ rx.pc = "returned"
    /\ rx.calls = 3
    /\ rx.result = Val(TRUE)
    /\ SeqSum(rx.sleeps) = rx.delay * 3

\* C3: the sleep after failed attempt a < max_retries is delay * a and comes
\* before attempt a + 1; no sleep follows the final failed attempt, so an
\* operation that always fails is waited for delay * (1 + ... + (n - 1)).
C3_BackoffSchedule ==
    /\ \A a \in 1..Len(rx.sleeps) : rx.sleeps[a] = rx.delay * a
    /\ rx.pc = "call" => Len(rx.sleeps) = rx.calls /\ rx.attempt = rx.calls + 1
    /\ rx.pc = "sleep" => Len(rx.sleeps) = rx.calls - 1
    /\ (rx.pc \in {"exhausted", "raised"} /\ rx.max_retries >= 1)
           => /\ Len(rx.sleeps) = rx.max_retries - 1
              /\ SeqSum(rx.sleeps) = rx.delay * SumTo(rx.max_retries - 1)

C3_Witness ==
    /\ rx.pc = "raised"
    /\ rx.max_retries = 3
    /\ rx.sleeps = <<rx.delay, rx.delay * 2>>

(***************************************************************************)
(* Properties of the scheduler, the guard and the pipeline, checked under  *)
(* Spec.                                                                   *)
(***************************************************************************)

\* get_next_account has just returned in this tick: LAST_RUN_FILE is still
\* what it read
Selected == spc = "run" /\ job.pc = "idle"

\* the four exits of process_single_account that leave through its try block
\* and whose finalizer ran to its end
ListedExits == {"success", "phase_failed", "config_failed", "unhandled"}

\* C4: for a non-empty sorted account list, when the stored record names the
\* account at (0-based) index i the account at index (i + 1) mod n is selected,
\* the last account wrapping to the first; with no continuation record the
\* first account of the list is selected.
C4_NextAccount ==
    Selected
        => /\ \A i \in 1..Len(fleet) :
                 store = Rec(fleet[i])
                     => account = fleet[IF i = Len(fleet) THEN 1 ELSE i + 1]
           /\ store = StoreMissing => account = fleet[1]

C4_Witness ==
    /\ Selected
    /\ Len(fleet) = 3
    /\ store = Rec(fleet[3])
    /\ account = fleet[1]

C9_FailedOnlyAfterAllAttempts ==
    \A p \in Wrapped :
        job.outcome[p] \in FailureOutcomes
            => job.attempts[p] = PhaseMaxRetries(p)

\* C10: when process_single_account raised MemoryError in the first attempt
\* and returned in the second, memory_safe_operation waited
\* MEMORY_RETRY_DELAY * 1, then collected once, then called again once, and
\* returned what the second call returned.
C10_OneReclaimOneRetry ==
    (guard.pc = "returned" /\ guard.attempt = 2)
        => /\ guard.events = << <<"call", 1>>,
                                <<"sleep", MEMORY_RETRY_DELAY * 1>>,
                                <<"gc", 1>>,
                                <<"call", 2>> >>
           /\ job.pc = "done"
           /\ guard.result = Val(job.result)

C10_Witness ==
    /\ guard.pc = "returned"
    /\ guard.attempt = 2
    /\ job.result = TRUE
    /\ guard.result = Val(TRUE)
    /\ Len(guard.events) = 4

\* the calls memory_safe_operation has made of its operation
GuardCalls == {i \in 1..Len(guard.events) : guard.events[i][1] = "call"}

\* C11: when process_single_account raised an exception that is not a
\* MemoryError, on whatever attempt, memory_safe_operation raised that same
\* exception to main_loop at once: the failed call is the last thing it did,
\* so no wait, no collection and no further call followed it.
C11_OtherFailurePropagates ==
    (spc = "run" /\ job.pc = "done" /\ job.raised.tag = "error"
        /\ job.raised.kind # "MemoryError")
        => /\ guard.pc = "raised"
           /\ guard.result = job.raised
           /\ guard.events[Len(guard.events)] = <<"call", guard.attempt>>
           /\ Cardinality(GuardCalls) = guard.attempt

C11_Witness ==
    /\ spc = "run"
    /\ job.pc = "done"
    /\ job.raised = Err("Exception", 2)
    /\ guard.pc = "raised"
    /\ guard.attempt = 2
    /\ Len(guard.events) = 4

\* C12: when process_single_account raised MemoryError on every attempt,
\* memory_safe_operation called it exactly three times, waited and collected
\* after the first and the second call only, and raised the MemoryError of the
\* third call to main_loop; it never waits or collects on its last attempt.
C12_MemoryErrorExhausts ==
    /\ (guard.pc = "raised" /\ guard.result.kind = "MemoryError")
           => /\ guard.events = << <<"call", 1>>,
                                   <<"sleep", MEMORY_RETRY_DELAY * 1>>,
                                   <<"gc", 1>>,
                                   <<"call", 2>>,
                                   <<"sleep", MEMORY_RETRY_DELAY * 2>>,
                                   <<"gc", 2>>,
                                   <<"call", 3>> >>
              /\ guard.result = Err("MemoryError", 3)
              /\ job.raised = guard.result
    /\ guard.pc \in {"sleep", "gc"} => guard.attempt < 3

C12_Witness ==
    /\ guard.pc = "raised"
    /\ guard.result = Err("MemoryError", 3)
    /\ Cardinality(GuardCalls) = 3
    /\ Len(guard.events) = 7

\* C13 as stated: a MemoryError raised inside a phase of the pipeline is not
\* turned into a False result of the job: it reaches memory_safe_operation,
\* which waits and runs the pipeline again, or raises it on its last attempt.
C13_MemoryErrorReachesGuard ==
    (spc = "run" /\ job.pc = "done"
        /\ job.exit \in {"phase_failed", "unhandled"}
        /\ job.error.tag = "error" /\ job.error.kind = "MemoryError")
        => /\ guard.pc \in {"sleep", "gc", "raised"}
           /\ job.raised = job.error

\* notification n is in the log of this tick
Notified(n) == \E i \in 1..Len(sent) : sent[i] = n

\* the latest notifications of the log
LastSent(k) == SubSeq(sent, Len(sent) - k + 1, Len(sent))

Asleep == spc \in {"sleep_cycle", "sleep_empty", "sleep_cooldown"}

\* C14 as stated: after the tick caught an exception raised out of
\* memory_safe_operation and notified it, the sleep of the tick is the fixed
\* cooldown of 60 seconds.
C14_CooldownAfterEscape ==
    (Asleep /\ Notified("critical"))
        => /\ spc = "sleep_cooldown"
           /\ nap = FatalCooldown

\* C14 as amended: after the tick caught an exception raised out of
\* memory_safe_operation and notified it, the tick goes on as after any
\* pipeline run: it announces the next cycle and sleeps the randomized cycle
\* delay.  The fixed cooldown of 60 seconds follows only a failure the
\* tick's outer except clause caught and notified.
C14_CycleDelayAfterEscape ==
    /\ (Asleep /\ Notified("critical"))
           => /\ spc = "sleep_cycle"
              /\ nap \in MIN_CYCLE_DELAY..MAX_CYCLE_DELAY
              /\ LastSent(2) = <<"critical", "next_cycle">>
    /\ spc = "sleep_cooldown"
           => /\ nap = 60
              /\ LastSent(1) = <<"fatal">>
              /\ ~Notified("critical")

C14_Witness ==
    /\ spc = "sleep_cycle"
    /\ sent = <<"critical", "next_cycle">>
    /\ nap = MAX_CYCLE_DELAY
    /\ lastRan.account # 0
    /\ lastRan.save = "none"

\* C15: the program terminates only when a stop signal is being unwound;
\* and unless a stop signal is ever delivered, a new tick begins again and
\* again, whatever failed in a tick, in the pipeline or in main_loop.
C15_StopsOnlyOnSignal ==
    /\ [](spc = "terminated" => stopping # "no")
    /\ (<>(stopping # "no" \/ Notified("signal")) \/ []<>(spc = "tick"))

C15_Witness ==
    /\ spc = "crashed"
    /\ sent = <<"fatal", "crashed">>
    /\ stopping = "no"
    /\ nap = 60

\* C16 as stated: after a crash of main_loop run_bot_with_restart has
\* notified it and sleeps 60 seconds before it calls main_loop again; after a
\* stop signal delivered while main_loop was running it has sent its
\* notification when the program terminates.
C16_SupervisorNotifies ==
    /\ spc = "crashed" => (LastSent(1) = <<"crashed">> /\ nap = 60)
    /\ (spc = "terminated" /\ ~Notified("crashed")) => Notified("stopped")

\* C17 as stated: the delivery of a stop signal sends exactly one
\* notification and starts the unwinding, and the unwinding, once started,
\* goes on until the program has terminated.
C17_SignalUnwinds ==
    [][/\ SignalsSent' # SignalsSent
           => /\ sent' = Append(sent, "signal")
              /\ stopping' # "no"
       /\ stopping # "no"
           => /\ stopping' # "no"
              /\ spc' \in {spc, "unwind", "terminated"}]_vars

\* C18: every tick begins with update_healthcheck, whose write may fail
\* without stopping the tick: the listing comes next in both cases, so the
\* heartbeat was attempted before the fleet is found empty, before the
\* account is selected and before anything in the tick fails.
C18_HeartbeatFirst ==
    /\ [](spc \in {"list", "run", "sleep_cycle", "sleep_empty", "sleep_cooldown"}
             => hb \in {"written", "failed"})
    /\ [][(spc = "tick" /\ spc' # "tick" /\ SignalsSent' = SignalsSent)
             => (spc' = "list" /\ hb' \in {"written", "failed"})]_vars
    /\ [][(spc' = "tick" /\ spc # "tick") => hb' = "none"]_vars

C18_Witness ==
    /\ hb = "failed"
    /\ spc = "run"
    /\ job.pc = "in"
    /\ account # 0

\* C19: a tick that finds no account directory notifies it and sleeps 300
\* seconds; from the listing to the end of that sleep LAST_RUN_FILE is not
\* written and no pipeline runs; the next tick follows the sleep.
C19_EmptyFleetTick ==
    /\ [](spc = "sleep_empty"
             => /\ fleet = <<>>
                /\ job = IdleJob
                /\ guard.pc = "idle"
                /\ LastSent(1) = <<"no_accounts">>
                /\ nap = 300)
    /\ [][(spc = "list" /\ spc' = "sleep_empty")
             => (/\ sent' = Append(sent, "no_accounts")
                 /\ store' = store
                 /\ job' = job)]_vars
    /\ [][(spc = "sleep_empty" /\ spc' # "sleep_empty")
             => (/\ spc' \in {"tick", "unwind"}
                 /\ store' = store
                 /\ job' = job)]_vars

C19_Witness ==
    /\ spc = "sleep_empty"
    /\ store = Rec(2)
    /\ sent = <<"no_accounts">>
    /\ nap = 300

\* C20: a call of process_single_account begins only when no other call of
\* it is under way, also when memory_safe_operation calls it again; its
\* account does not change while it is under way; and outside the tick's
\* pipeline step no call is under way.
C20_OneJobAtATime ==
    /\ [](spc # "run" => job.pc \in {"idle", "done"})
    /\ [][Cardinality(GuardCalls') > Cardinality(GuardCalls)
             => (/\ job.pc \in {"idle", "done"}
                 /\ job'.pc = "prologue"
                 /\ account' = account)]_vars
    /\ [][job.pc \notin {"idle", "done"} => account' = account]_vars

C20_Witness ==
    /\ spc = "run"
    /\ guard.attempt = 2
    /\ job.pc = "in"
    /\ job.phase = 3

(***************************************************************************)
(* The end-to-end scenario: two accounts, no continuation record, a        *)
(* download that fails twice and then succeeds.                            *)
(***************************************************************************)

\* the download inside download_reel_video returned True on its third and
\* last attempt, after two failed attempts and the sleeps of 5 and 10 seconds
FetchedOnThird ==
    /\ dl.pc = "returned"
    /\ dl.calls = DownloadMaxRetries
    /\ dl.result = Val(TRUE)

\* the parts of the scenario that do not depend on the write of the record:
\* with two accounts and no record the first one is selected, and a fetch
\* that came through on its third attempt is followed by ExtractMetadata
ScenarioSelectsAndProceeds ==
    /\ (Selected /\ Len(fleet) = 2 /\ store = StoreMissing)
           => account = fleet[1]
    /\ (FetchedOnThird /\ rx.pc # "call")
           => /\ dl.sleeps = <<DownloadDelay, 2 * DownloadDelay>>
              /\ dl.last_error.call = 2
              /\ \/ /\ job.pc = "in"
                    /\ job.phase = 2
                    /\ rx.pc = "returned"
                    /\ rx.result = Val(TRUE)
                 \/ /\ job.pc = "start"
                    /\ job.phase = 3
                    /\ job.outcome[2] = "ok"
                    /\ job.started = <<1, 2>>

SuccessorIsNext(a) ==
    \A f \in Fleets :
        \A i \in 1..Len(f) :
            (Len(f) >= 2 /\ f[i] = a)
                => /\ get_next_account(f, store) # a
                   /\ get_next_account(f, store)
                         = f[IF i = Len(f) THEN 1 ELSE i + 1]

\* a job that found no usable configuration starts no phase, is False, goes
\* through the finalizer to save_last_run, and is not called again by
\* memory_safe_operation, which returns its False
ConfigFailureEndsJob ==
    job.exit = "config_failed"
        => /\ job.started = <<>>
           /\ \A p \in Phases : job.outcome[p] = "none"
           /\ job.result = FALSE
           /\ job.pc \in {"fin_clean", "fin_save", "done"}
           /\ job.pc = "done"
                 => /\ job.saveFor = account
                    /\ spc = "run"
                          => (guard.pc = "returned" /\ guard.result = Val(FALSE))

Chars ==
    <<"\n", " ", "!", "#", ".", "1", "2", "3", "4", "5", "6", "7",
      "8", "9", "@", "A", "H", "V", "_", "a", "b", "c", "d", "e", "f",
      "g", "h", "i", "l", "m", "n", "o", "p", "r", "s", "t", "u", "x",
      "z">>

\* ord(c), up to the order it defines
Ord(c) == CHOOSE i \in 1..Len(Chars) : Chars[i] = c

\* str.isspace() for one character
Whitespace == {"\n", " "}

\* str.lower() for one character
LowerChar(c) ==
    CASE c = "A" -> "a"
      [] c = "H" -> "h"
      [] c = "V" -> "v"
      [] OTHER -> c

SetMin(S) == CHOOSE x \in S : \A y \in S : x <= y
SetMax(S) == CHOOSE x \in S : \A y \in S : y <= x

\* s[i:] with i counted from 1
From(s, i) == SubSeq(s, i, Len(s))

RECURSIVE splitlines(_)
\* str.splitlines(): the lines without their line breaks; a line break at the
\* very end opens no further line, and the empty text has no line
splitlines(s) ==
    LET breaks == {i \in 1..Len(s) : s[i] = "\n"}
    IN  IF s = <<>> THEN <<>>
        ELSE IF breaks = {} THEN <<s>>
        ELSE <<SubSeq(s, 1, SetMin(breaks) - 1)>>
                 \o splitlines(From(s, SetMin(breaks) + 1))

\* str.strip()
strip(s) ==
    LET solid == {i \in 1..Len(s) : s[i] \notin Whitespace}
    IN  IF solid = {} THEN <<>> ELSE SubSeq(s, SetMin(solid), SetMax(solid))

\* str.lower()
lower(s) == [i \in 1..Len(s) |-> LowerChar(s[i])]

\* str.endswith(t) for a tuple t of one-character suffixes
endswith(s, t) == s # <<>> /\ s[Len(s)] \in t

\* str.startswith(c) for a one-character prefix
startswith(s, c) == s # <<>> /\ s[1] = c

\* c in s
Has(s, c) == \E i \in 1..Len(s) : s[i] = c

RECURSIVE split(_)
\* str.split(): the maximal runs of characters that are not whitespace
split(s) ==
    LET t == strip(s)
        gaps == {i \in 1..Len(t) : t[i] \in Whitespace}
    IN  IF t = <<>> THEN <<>>
        ELSE IF gaps = {} THEN <<t>>
        ELSE <<SubSeq(t, 1, SetMin(gaps) - 1)>> \o split(From(t, SetMin(gaps)))

RECURSIVE join(_, _)
\* sep.join(parts)
join(sep, parts) ==
    IF parts = <<>> THEN <<>>
    ELSE IF Len(parts) = 1 THEN parts[1]
    ELSE parts[1] \o sep \o join(sep, Tail(parts))

\* a < b for two texts: the order of the first character that differs, a
\* proper prefix coming first
Before(a, b) ==
    \/ \E k \in 1..Len(a) :
          /\ k <= Len(b)
          /\ \A j \in 1..(k - 1) : a[j] = b[j]
          /\ Ord(a[k]) < Ord(b[k])
    \/ /\ Len(a) < Len(b)
       /\ a = SubSeq(b, 1, Len(a))

RECURSIVE sorted_Descending(_)
sorted_Descending(S) ==
    IF S = {} THEN <<>>
    ELSE LET last == CHOOSE x \in S : \A y \in S \ {x} : Before(y, x)
         IN  <<last>> \o sorted_Descending(S \ {last})

RECURSIVE sorted(_)
\* sorted(S) for a set of texts
sorted(S) ==
    IF S = {} THEN <<>>
    ELSE LET first == CHOOSE x \in S : \A y \in S \ {x} : Before(x, y)
         IN  <<first>> \o sorted(S \ {first})

(***************************************************************************)
(* clean_caption_file (tittle.py:345-382) as a function from the content   *)
(* of the caption file to its new content.                                 *)
(***************************************************************************)

DropLine_KeepMentions(line) ==
    \/ line = <<>>
    \/ lower(line) = <<"v", "e", "r", "i", "f", "i", "e", "d">>
    \/ endswith(lower(line), {"d", "w", "h"})
    \/ Has(line, "_")
    \/ lower(line) = line /\ ~startswith(line, "#") /\ Len(split(line)) = 1

\* the `continue`s of the loop (358-368), for a stripped line
DropLine(line) ==
    \/ line = <<>>
    \/ lower(line) = <<"v", "e", "r", "i", "f", "i", "e", "d">>
    \/ endswith(lower(line), {"d", "w", "h"})
    \/ Has(line, "@")
    \/ Has(line, "_")
    \/ lower(line) = line /\ ~startswith(line, "#") /\ Len(split(line)) = 1

\* line = line.strip() for every line of the file (349, 356)
StrippedLines(content) ==
    LET lines == splitlines(content)
    IN  [i \in 1..Len(lines) |-> strip(lines[i])]

\* final_lines after the loop: the lines that are not dropped and do not
\* start with "#" (369-375)
final_lines(content) ==
    LET lines == StrippedLines(content)
        kept == {i \in 1..Len(lines) :
                    ~DropLine(lines[i]) /\ ~startswith(lines[i], "#")}
        RECURSIVE Pick(_)
        Pick(i) == IF i > Len(lines) THEN <<>>
                   ELSE IF i \in kept THEN <<lines[i]>> \o Pick(i + 1)
                   ELSE Pick(i + 1)
    IN  Pick(1)

\* seen_hashtags after the loop: the tokens of the lines that are not dropped
\* and start with "#" (369-373)
seen_hashtags(content) ==
    LET lines == StrippedLines(content)
    IN  UNION {{split(lines[i])[k] : k \in 1..Len(split(lines[i]))} :
                  i \in {n \in 1..Len(lines) :
                            ~DropLine(lines[n]) /\ startswith(lines[n], "#")}}

Separator_Always(body) == <<<<>>>>

\* if final_lines and final_lines[-1] != "": final_lines.append("") (377-378)
Separator(body) ==
    IF body # <<>> /\ body[Len(body)] # <<>> THEN <<<<>>>> ELSE <<>>

\* the text clean_caption_file writes (376-381)
clean_caption_file(content) ==
    LET body == final_lines(content)
        tags == seen_hashtags(content)
    IN  IF tags # {}
        THEN join(<<"\n">>,
                  body \o Separator(body) \o <<join(<<" ">>, sorted(tags))>>)
        ELSE join(<<"\n">>, body)

(***************************************************************************)
(* SpecCaption: clean_caption_file run on a caption file, and run again on *)
(* what it wrote.                                                          *)
(***************************************************************************)

\* how many lines the caption file has at first
MaxLines == 3

\* how many times clean_caption_file runs on the file
MaxPasses == 2

\* the lines the caption files of the model are made of
CaptionLines ==
    {
       <<>>,
       <<" ", "V", "e", "r", "i", "f", "i", "e", "d", " ">>,
       <<"3", "h">>,
       <<"H", "i", " ", "@", "a">>,
       <<"H", "i", " ", "a", "_", "b">>,
       <<"h", "i">>,
       <<"H", "i">>,
       <<"a", " ", "b">>,
       <<"H", "i", " ", "#", "a">>,
       <<"#", "b", " ", "#", "a">>,
       <<"#", "a", " ", "#", "a">>,
       <<"#", "z", "e", "d", " ", "#", "a">>,
       <<"#", "a", " ", "!">>,
       <<" ", "#", "b", " ", " ", "#", "A", " ">>,
       <<"#", "h">>
    }

\* the scheduler is not running: the specifications of the file functions
\* leave its state alone
SchedulerOff ==
    /\ rx = IdleRetry
    /\ guard = IdleGuard
    /\ dl = IdleRetry
    /\ fleet = <<>>
    /\ store = StoreMissing
    /\ spc = "terminated"
    /\ hb = "none"
    /\ account = 0
    /\ lastRan = NoRun
    /\ job = IdleJob
    /\ stopping = "no"
    /\ sent = <<>>
    /\ nap = 0

\* disk.exists: caption_<account>.txt is there; disk.text: its content;
\* disk.before: its content before the latest run of clean_caption_file;
\* disk.passes: the runs of clean_caption_file so far.  The file holds up
\* to MaxLines lines joined by line breaks.
InitCaption ==
    /\ SchedulerOff
    /\ \/ \E ls \in UNION {[1..n -> CaptionLines] : n \in 0..MaxLines} :
             LET t == join(<<"\n">>, ls)
             IN  disk = [kind |-> "caption", exists |-> TRUE, text |-> t,
                         before |-> t, passes |-> 0]
       \/ disk = [kind |-> "caption", exists |-> FALSE, text |-> <<>>,
                  before |-> <<>>, passes |-> 0]

\* the file is read, cleaned and written back (347-381)
CleanCaption ==
    /\ disk.passes < MaxPasses
    /\ disk.exists
    /\ disk' = [disk EXCEPT !.text = clean_caption_file(disk.text),
                            !.before = disk.text,
                            !.passes = @ + 1]
    /\ UNCHANGED <<rx, guard, dl, fleet, store, spc, hb, account, lastRan, job,
                   stopping, sent, nap>>

\* FileNotFoundError: a warning, and nothing is written (350-352)
CleanCaptionMissing ==
    /\ disk.passes < MaxPasses
    /\ ~disk.exists
    /\ disk' = [disk EXCEPT !.passes = @ + 1]
    /\ UNCHANGED <<rx, guard, dl, fleet, store, spc, hb, account, lastRan, job,
                   stopping, sent, nap>>

NextCaption == CleanCaption \/ CleanCaptionMissing

SpecCaption == InitCaption /\ [][NextCaption]_vars

(***************************************************************************)
(* Properties of clean_caption_file, checked under SpecCaption.  They are  *)
(* stated on the text the function wrote (disk.text), read back line by    *)
(* line, against the text it read (disk.before).                           *)
(***************************************************************************)

RECURSIVE LinesOf(_)
\* the lines of a text, cut at every line break: a text that ends with a line
\* break has an empty last line
LinesOf(s) ==
    LET breaks == {i \in 1..Len(s) : s[i] = "\n"}
    IN  IF breaks = {} THEN <<s>>
        ELSE <<SubSeq(s, 1, SetMin(breaks) - 1)>>
                 \o LinesOf(From(s, SetMin(breaks) + 1))

\* clean_caption_file has just rewritten the file
Cleaned == disk.kind = "caption" /\ disk.exists /\ disk.passes >= 1

\* the written file has a hashtag line: the run found hashtags
HasHashtagLine == Cleaned /\ seen_hashtags(disk.before) # {}

\* the last line of the written file
LastLine == LinesOf(disk.text)[Len(LinesOf(disk.text))]

\* the lines of the written file before the hashtag line and the blank line
\* in front of it
BodyOf(text, hashtagLine) ==
    LET out == LinesOf(text)
        n == Len(out)
    IN  IF text = <<>> THEN <<>>
        ELSE IF ~hashtagLine THEN out
        ELSE IF n >= 2 /\ out[n - 1] = <<>> THEN SubSeq(out, 1, n - 2)
        ELSE SubSeq(out, 1, n - 1)

\* C22: when the written file has a hashtag line, the tokens of that line,
\* separated by single spaces, are pairwise distinct and in ascending
\* lexicographic order.
C22_HashtagLineSortedDistinct ==
    HasHashtagLine
        => LET tokens == split(LastLine)
           IN  /\ LastLine = join(<<" ">>, tokens)
               /\ \A i, j \in 1..Len(tokens) :
                     i < j => /\ tokens[i] # tokens[j]
                              /\ Before(tokens[i], tokens[j])

\* two hashtag lines, out of order and with repeated tags, became "#a #b"
C22_Witness ==
    /\ Cleaned
    /\ disk.passes = 1
    /\ disk.before = <<"#", "b", " ", "#", "a", "\n", "#", "a", " ", "#", "a">>
    /\ disk.text = <<"#", "a", " ", "#", "b">>

\* the drop rules as the specification lists them
MatchesDropRule(line) ==
    \/ line = <<>>
    \/ lower(line) = <<"v", "e", "r", "i", "f", "i", "e", "d">>
    \/ \E c \in {"d", "w", "h"} : line # <<>> /\ line[Len(line)] = c
    \/ \E i \in 1..Len(line) : line[i] = "@"
    \/ \E i \in 1..Len(line) : line[i] = "_"
    \/ /\ \A i \in 1..Len(line) : line[i] \notin Whitespace
       /\ \A i \in 1..Len(line) : LowerChar(line[i]) = line[i]
       /\ line[1] # "#"

\* C23: no line of the body of the written file (its lines before the
\* optional blank line and hashtag line) matches a drop rule: empty,
\* "verified" in any case, ending with d, w or h, containing "@", containing
\* "_", or a single all-lowercase word that does not start with "#".
C23_NoDroppedLineInBody ==
    Cleaned
        => LET body == BodyOf(disk.text, HasHashtagLine)
           IN  \A i \in 1..Len(body) : ~MatchesDropRule(body[i])

\* a mention and a line with an underscore were dropped, "Hi" was kept
C23_Witness ==
    /\ Cleaned
    /\ disk.passes = 1
    /\ disk.before = <<"H", "i", " ", "@", "a", "\n",
                       "H", "i", " ", "a", "_", "b", "\n", "H", "i">>
    /\ disk.text = <<"H", "i">>

\* C24 as stated: running clean_caption_file on what it wrote changes
\* nothing: the second run's output equals the first run's output.
C24_Idempotent ==
    (Cleaned /\ disk.passes = 2) => disk.text = disk.before

\* C25: when the run found hashtags and kept body lines, the written file is
\* the body lines, one blank line and the hashtag line as its last line; when
\* it kept no body line the file is the hashtag line alone; when it found no
\* hashtag the file is the body lines alone, with no blank line at the end.
C25_OutputShape ==
    Cleaned
        => LET body == final_lines(disk.before)
               tags == seen_hashtags(disk.before)
               out == LinesOf(disk.text)
               n == Len(out)
               IsHashtagLine(l) ==
                   /\ l # <<>>
                   /\ {split(l)[k] : k \in 1..Len(split(l))} = tags
           IN  /\ (tags # {} /\ body # <<>>)
                     => /\ n = Len(body) + 2
                        /\ SubSeq(out, 1, n - 2) = body
                        /\ \A i \in 1..(n - 2) : out[i] # <<>>
                        /\ out[n - 1] = <<>>
                        /\ IsHashtagLine(out[n])
               /\ (tags # {} /\ body = <<>>)
                     => /\ n = 1
                        /\ IsHashtagLine(out[1])
               /\ (tags = {} /\ body # <<>>)
                     => /\ out = body
                        /\ out[n] # <<>>
               /\ (tags = {} /\ body = <<>>) => disk.text = <<>>

\* a body line and a hashtag line became body, blank line, hashtag line
C25_Witness ==
    /\ Cleaned
    /\ disk.passes = 1
    /\ disk.before = <<"H", "i", "\n", "#", "b", " ", "#", "a">>
    /\ disk.text = <<"H", "i", "\n", "\n", "#", "a", " ", "#", "b">>

(***************************************************************************)
(* SpecDisk: process_single_account as BASE_DIR sees it.  The phases write *)
(* the account's transient files and take debug snapshots; the finalizer   *)
(* (clean_temp_files, tittle.py:167-187) removes the transient files and   *)
(* prunes the snapshots.  File names are texts, built and matched the way  *)
(* the code builds and matches them.                                       *)
(***************************************************************************)

\* how many snapshots are taken in all (each has its own timestamp)
MaxShots == 4

\* existing[:-3]: the number of snapshots the pruning keeps (156, 183)
KeepShots == 3

\* os.path.basename(account_dir) of the account directories, in the order of
\* sorted(os.listdir(COMBO_DIR)) (966)
AccountNames == <<<<"a">>, <<"a", "_", "b">>>>

\* datetime.now().strftime("%Y%m%d_%H%M%S") (149): a text of fixed width whose
\* order is the order of time; here one digit, for the times 1 to 9
Stamp(t) == <<<<"1", "2", "3", "4", "5", "6", "7", "8", "9">>[t]>>

\* f"debug_{account_name}_{step_name}_{timestamp}.png" (150)
ScreenshotName(account_name, step_name, timestamp) ==
    <<"d", "e", "b", "u", "g", "_">> \o account_name \o <<"_">>
        \o step_name \o <<"_">> \o timestamp \o <<".", "p", "n", "g">>

\* output_path of download_reel_video (535)
DownloadPath(account_name) ==
    <<"r", "e", "e", "l", "_">> \o account_name \o <<".", "m", "p", "4">>

\* output_path of process_video_with_ffmpeg (392)
ProcessedPath(account_name) ==
    <<"r", "e", "e", "l", "_">> \o account_name
        \o <<"_", "p", "r", "o", "c", "e", "s", "s", "e", "d">>
        \o <<".", "m", "p", "4">>

\* caption_path of extract_caption and clean_caption_file (337, 346)
CaptionPath(account_name) ==
    <<"c", "a", "p", "t", "i", "o", "n", "_">> \o account_name
        \o <<".", "t", "x", "t">>

temp_files_NoCaption(account_name) ==
    <<<<"r", "e", "e", "l", "_">> \o account_name \o <<".", "m", "p", "4">>,
      <<"r", "e", "e", "l", "_">> \o account_name
          \o <<"_", "p", "r", "o", "c", "e", "s", "s", "e", "d">>
          \o <<".", "m", "p", "4">>>>

\* temp_files of clean_temp_files (168-172)
temp_files(account_name) ==
    <<<<"r", "e", "e", "l", "_">> \o account_name \o <<".", "m", "p", "4">>,
      <<"r", "e", "e", "l", "_">> \o account_name
          \o <<"_", "p", "r", "o", "c", "e", "s", "s", "e", "d">>
          \o <<".", "m", "p", "4">>,
      <<"c", "a", "p", "t", "i", "o", "n", "_">> \o account_name
          \o <<".", "t", "x", "t">>>>

\* f.endswith(p) for a text p
HasSuffix(f, p) ==
    Len(p) <= Len(f) /\ SubSeq(f, Len(f) - Len(p) + 1, Len(f)) = p

\* existing = sorted([f for f in os.listdir(BASE_DIR) if
\* f.startswith(f"debug_{account_name}_") and f.endswith(".png")]) (155, 182)
existing(names, account_name) ==
    sorted({f \in names :
               /\ LET p == <<"d", "e", "b", "u", "g", "_">>
                               \o account_name \o <<"_">>
                  IN  Len(p) <= Len(f) /\ SubSeq(f, 1, Len(p)) = p
               /\ HasSuffix(f, <<".", "p", "n", "g">>)})

\* existing[:-3] (156, 183): all but the last three
ToPrune(names, account_name) ==
    LET e == existing(names, account_name)
    IN  {e[i] : i \in 1..(Len(e) - KeepShots)}

\* the step names of the snapshots of the phases: reels page (856), reel
\* page (505), caption page (910), and the first of the upload (668)
StepNames(p) ==
    CASE p = 1 -> {<<"r", "e", "e", "l", "s", "_", "p", "a", "g", "e">>}
      [] p = 2 -> {<<"r", "e", "e", "l", "_", "p", "a", "g", "e">>}
      [] p = 3 -> {<<"r", "e", "e", "l", "_", "f", "o", "r", "_", "c", "a",
                     "p", "t", "i", "o", "n">>}
      [] p = 5 -> {<<"i", "n", "s", "t", "a", "g", "r", "a", "m", "_", "h",
                     "o", "m", "e">>}
      [] OTHER -> {}

\* disk.names: the file names in BASE_DIR.  disk.clock: the time of the
\* latest snapshot.  disk.acct, disk.pc and disk.phase: the account being
\* processed and where its job stands ("idle", "prologue", "phase", "fin",
\* "done").  disk.jobs: the calls of process_single_account so far, as many
\* as there are accounts.  disk.shot: the phase has taken its snapshot.
\* disk.exit: how the job left its try block.  disk.before: the names when
\* the finalizer began.  disk.removal and disk.pruning: what the finalizer's
\* two loops did ("none": not run, "ok", "failed": some os.remove failed,
\* "skipped": os.listdir raised).
InitDisk ==
    /\ SchedulerOff
    /\ disk = [kind |-> "dir", names |-> {}, acct |-> 0,
               pc |-> "idle", phase |-> 0, exit |-> "none", before |-> {},
               removal |-> "none", pruning |-> "none", clock |-> 0,
               jobs |-> 0, shot |-> FALSE]

DiskQuiet ==
    UNCHANGED <<rx, guard, dl, fleet, store, spc, hb, account, lastRan, job,
                stopping, sent, nap>>

\* process_single_account(account_dir) is called: for any account at first,
\* which the stored record decides, and then for the one that follows it in
\* the rotation
DiskJobBegin ==
    /\ disk.kind = "dir"
    /\ disk.pc \in {"idle", "done"}
    /\ disk.jobs < Len(AccountNames)
    /\ \E a \in 1..Len(AccountNames) :
          /\ disk.pc = "done" => a = (disk.acct % Len(AccountNames)) + 1
          /\ disk' = [disk EXCEPT !.acct = a, !.pc = "prologue",
                                  !.phase = 0, !.exit = "none",
                                  !.before = {}, !.removal = "none",
                                  !.pruning = "none", !.jobs = @ + 1]
    /\ DiskQuiet

\* load_account_config returned None: return False (835-837)
DiskConfigFails ==
    /\ disk.kind = "dir"
    /\ disk.pc = "prologue"
    /\ disk' = [disk EXCEPT !.pc = "fin", !.exit = "config_failed"]
    /\ DiskQuiet

\* The two loops of clean_temp_files(account_name) on the names of BASE_DIR.
\* Every temp file that exists is removed unless its os.remove fails
\* (173-178); then the snapshots of ToPrune are removed, each unless its
\* os.remove fails (182-187), or os.listdir raises and none is.  stuck and
\* kept are the files whose os.remove fails.
CleanTempFiles(names, account_name, stuck, kept, listed) ==
    LET targets == {temp_files(account_name)[i] :
                       i \in 1..Len(temp_files(account_name))}
        afterRemoval == names \ (targets \ stuck)
        pruned == IF listed
                  THEN afterRemoval
                           \ (ToPrune(afterRemoval, account_name) \ kept)
                  ELSE afterRemoval
    IN  [names |-> pruned,
         removal |-> IF names \cap targets \cap stuck = {} THEN "ok"
                     ELSE "failed",
         pruning |-> IF ~listed THEN "skipped"
                     ELSE IF ToPrune(afterRemoval, account_name) \cap kept = {}
                     THEN "ok" ELSE "failed"]

\* the outcomes of clean_temp_files: os.remove works, or fails for the temp
\* files, for the snapshots, or for both
CleanOutcomes(names, account_name) ==
    {CleanTempFiles(names, account_name, stuck, kept, listed) :
        stuck \in {{}, names},
        kept \in {{}, names},
        listed \in BOOLEAN}

\* the configuration is there: clean_temp_files(account_name) (838), and
\* phase 1 is next
DiskPrologueClean ==
    /\ disk.kind = "dir"
    /\ disk.pc = "prologue"
    /\ \E c \in CleanOutcomes(disk.names, AccountNames[disk.acct]) :
          disk' = [disk EXCEPT !.names = c.names,
                               !.pc = IF c.pruning = "skipped" THEN "fin"
                                      ELSE "phase",
                               !.phase = IF c.pruning = "skipped" THEN 0
                                         ELSE 1,
                               !.exit = IF c.pruning = "skipped"
                                        THEN "unhandled" ELSE "none"]
    /\ DiskQuiet

\* save_screenshot(page, step_name, account_name) (148-165): the pruning of
\* the account's snapshots, then the new snapshot
save_screenshot(d, step_name, account_name, kept) ==
    LET name == ScreenshotName(account_name, step_name, Stamp(d.clock + 1))
    IN  [d EXCEPT !.names = (@ \ (ToPrune(@, account_name) \ kept))
                                \cup {name},
                  !.clock = @ + 1, !.shot = TRUE]

\* a phase takes a snapshot
DiskSnapshot ==
    /\ disk.kind = "dir"
    /\ disk.pc = "phase"
    /\ disk.clock < MaxShots
    /\ ~disk.shot
    /\ \E step_name \in StepNames(disk.phase),
          kept \in {{}, disk.names} :
          disk' = save_screenshot(disk, step_name, AccountNames[disk.acct],
                                  kept)
    /\ DiskQuiet

\* a phase ends: it has written its file or not; it went through ("ok"),
\* returned False, or an exception reached line 947.  A download or a
\* processing that went through has written its file; phase 3 goes through
\* without one when extract_caption ends in its except branch (341-343).
\* After phase 5, or a failure, the finalizer is next.
DiskPhaseEnd ==
    /\ disk.kind = "dir"
    /\ disk.pc = "phase"
    /\ LET p == disk.phase
           account_name == AccountNames[disk.acct]
           written == CASE p = 2 -> {DownloadPath(account_name)}
                        [] p = 3 -> {CaptionPath(account_name)}
                        [] p = 4 -> {ProcessedPath(account_name)}
                        [] OTHER -> {}
       IN  \E out \in {"ok", "false", "unhandled"}, wrote \in BOOLEAN :
              /\ (out = "ok" /\ p # 3) => wrote
              /\ disk' = [disk EXCEPT
                    !.names = IF wrote THEN @ \cup written ELSE @,
                    !.pc = IF out = "ok" /\ p < 5 THEN "phase" ELSE "fin",
                    !.phase = IF out = "ok" /\ p < 5 THEN p + 1 ELSE p,
                    !.shot = FALSE,
                    !.exit = IF out = "ok"
                             THEN (IF p = 5 THEN "success" ELSE "none")
                             ELSE IF out = "false" THEN "phase_failed"
                             ELSE "unhandled"]
    /\ DiskQuiet

\* finally (951-955): clean_temp_files(account_name)
DiskFinalizer ==
    /\ disk.kind = "dir"
    /\ disk.pc = "fin"
    /\ \E c \in CleanOutcomes(disk.names, AccountNames[disk.acct]) :
          disk' = [disk EXCEPT !.names = c.names, !.before = disk.names,
                               !.removal = c.removal, !.pruning = c.pruning,
                               !.pc = "done"]
    /\ DiskQuiet

NextDisk ==
    \/ DiskJobBegin \/ DiskConfigFails \/ DiskPrologueClean \/ DiskSnapshot
    \/ DiskPhaseEnd \/ DiskFinalizer

SpecDisk == InitDisk /\ [][NextDisk]_vars


(***************************************************************************)
(* Claims about the files of BASE_DIR.                                     *)
(***************************************************************************)

\* the job of the account named account_name has gone through its finalizer
Finalized == disk.kind = "dir" /\ disk.pc = "done"

\* the three transient files of an account
TransientFiles(account_name) ==
    {DownloadPath(account_name), ProcessedPath(account_name),
     CaptionPath(account_name)}

\* C27: on every exit of the job (success, a phase that failed, an unhandled
\* error, a missing configuration) the finalizer has run, and when none of
\* its removals of temp files failed, none of the account's three transient
\* files is left in BASE_DIR.
C27_TransientFilesGone ==
    (Finalized /\ disk.removal = "ok")
        => TransientFiles(AccountNames[disk.acct]) \cap disk.names = {}

\* the upload failed with the three files on the disk, and the finalizer
\* has removed them
C27_Witness ==
    /\ Finalized
    /\ disk.removal = "ok"
    /\ disk.exit = "phase_failed"
    /\ disk.phase = 5
    /\ TransientFiles(AccountNames[disk.acct]) \subseteq disk.before
    /\ TransientFiles(AccountNames[disk.acct]) \cap disk.names = {}

\* every snapshot name the phases can produce, with the account it is taken
\* for and the time it is taken at
AllShots ==
    {[owner |-> a, step |-> s, at |-> t] :
        a \in 1..Len(AccountNames), s \in UNION {StepNames(p) : p \in 1..5},
        t \in 1..9}

ShotOf(f) ==
    CHOOSE r \in AllShots :
        ScreenshotName(AccountNames[r.owner], r.step, Stamp(r.at)) = f

Shots(names) == {f \in names : HasSuffix(f, <<".", "p", "n", "g">>)}

\* C30: after the finalizer has pruned the snapshots of an account, at most
\* three snapshots of that account are left, every one of them was taken
\* later than every snapshot of the account that was removed, and no
\* snapshot of another account was removed.
C30_PruningKeepsLatestThree ==
    (Finalized /\ disk.pruning = "ok")
        => LET mine(names) ==
                   {f \in Shots(names) : ShotOf(f).owner = disk.acct}
               removed == Shots(disk.before) \ disk.names
           IN  /\ Cardinality(mine(disk.names)) <= KeepShots
               /\ \A r \in mine(removed), k \in mine(disk.names) :
                      ShotOf(r).at < ShotOf(k).at
               /\ removed \subseteq mine(disk.before)

(***************************************************************************)
(* Claims about the stop signal and the finalizer.                         *)
(***************************************************************************)

\* C28 as stated: when the program has terminated on a stop signal that
\* arrived while process_single_account was running for an account, the
\* finally of that call has cleaned the transient files and has called
\* save_last_run for the account.
C28_FinalizerRunsOnStop ==
    (spc = "terminated" /\ job.exit = "interrupted")
        => job.saveFor = account

(***************************************************************************)
(* SpecRewrite: enhance_caption_with_gemini (tittle.py:252-307) and the    *)
(* end of extract_caption that uses its result (336-343), for every        *)
(* behaviour of the rewrite service.                                       *)
(***************************************************************************)

\* str.split("\n\n"): the parts between the blank lines, found from the left
RECURSIVE split_blank(_)
split_blank(s) ==
    LET at == {i \in 1..(Len(s) - 1) : s[i] = "\n" /\ s[i + 1] = "\n"}
    IN  IF at = {} THEN <<s>>
        ELSE <<SubSeq(s, 1, SetMin(at) - 1)>>
                 \o split_blank(From(s, SetMin(at) + 2))

\* response.status != 200 (282)
HTTP_OK == 200

StatusFails_Never(status) == FALSE

StatusFails(status) == status # HTTP_OK

\* What the service does with one request.  configured: GEMINI_API_KEY is
\* set.  raises: "outer" the session cannot be made (280, caught at 306),
\* "timeout" asyncio.TimeoutError in the request (caught at 300), "error" any
\* other exception in it (caught at 303), "none".  status: the HTTP status.
\* candidates: "missing" no such key, "empty" an empty list, "malformed" a
\* first candidate without content/parts/text (KeyError at 289), "present".
\* text: candidates[0].content.parts[0].text.
Services ==
    [configured : BOOLEAN, raises : {"none", "outer", "timeout", "error"},
     status : {HTTP_OK, 429, 500},
     candidates : {"missing", "empty", "malformed", "present"},
     text : {<<"H", "i">>,
             <<"H", "i", "\n", "\n", "#", "a">>,
             <<" ", "H", "i", " ", "\n", "\n", " ", "#", "a", " ", "\n">>,
             <<"\n", "\n">>,
             <<"H", "i", "\n", "\n", "#", "a", "\n", "\n", "!">>}]

\* best_text of extract_caption (312-335)
OriginalCaptions ==
    {<<"h", "i">>,
     <<"H", "i", "\n", "\n", "#", "a">>,
     <<"H", "i", "\n", "\n">>,
     <<"H", "i", "\n", "\n", "#", "h", " ", "#", "a">>}

\* enhance_caption_with_gemini(account_name, original_caption) (252-307) as
\* a function of the caption and of what the service does
enhance_caption_with_gemini(original_caption, service) ==
    IF ~service.configured THEN original_caption
    ELSE IF service.raises # "none" THEN original_caption
    ELSE IF StatusFails(service.status) THEN original_caption
    ELSE IF service.candidates \in {"missing", "empty"}
    THEN original_caption
    ELSE IF service.candidates = "malformed" THEN original_caption
    ELSE LET enhanced_parts == split_blank(service.text)
         IN  IF Len(enhanced_parts) < 2 THEN original_caption
             ELSE strip(enhanced_parts[1]) \o <<"\n", "\n">>
                      \o strip(enhanced_parts[2])

\* the return value of extract_caption when its except branch is taken (343)
DefaultCaption == [tag |-> "default"]

\* disk.original: best_text at line 336.  disk.service: what the service
\* does.  disk.pc: "found" before line 336, "enhanced" after it, "returned"
\* after extract_caption.  disk.enhanced_text: the result of line 336.
\* disk.file: the content of caption_{account}.txt.  disk.returned: the
\* return value of extract_caption.
InitRewrite ==
    /\ SchedulerOff
    /\ \E original \in OriginalCaptions, service \in Services :
          disk = [kind |-> "rewrite", original |-> original,
                  service |-> service, pc |-> "found",
                  enhanced_text |-> NoError, file |-> NoError,
                  returned |-> NoError]

\* enhanced_text = await enhance_caption_with_gemini(account_name, best_text)
\* (336)
RewriteCall ==
    /\ disk.kind = "rewrite"
    /\ disk.pc = "found"
    /\ disk' = [disk EXCEPT
                   !.pc = "enhanced",
                   !.enhanced_text =
                       Val(enhance_caption_with_gemini(disk.original,
                                                       disk.service))]
    /\ DiskQuiet

\* the caption file is written and the text returned (337-340)
CaptionWritten ==
    /\ disk.kind = "rewrite"
    /\ disk.pc = "enhanced"
    /\ disk' = [disk EXCEPT !.pc = "returned", !.file = disk.enhanced_text,
                            !.returned = disk.enhanced_text]
    /\ DiskQuiet

\* open() or write() raises: caught at 341, the default caption is returned
\* (343)
CaptionWriteFails ==
    /\ disk.kind = "rewrite"
    /\ disk.pc = "enhanced"
    /\ disk' = [disk EXCEPT !.pc = "returned", !.returned = DefaultCaption]
    /\ DiskQuiet

NextRewrite == RewriteCall \/ CaptionWritten \/ CaptionWriteFails

SpecRewrite == InitRewrite /\ [][NextRewrite]_vars

\* the rewrite call failed in one of the ways the service can fail: not
\* configured, an exception or a timeout, a status other than 200, no
\* candidates, a candidate of the wrong shape, or a text without two parts
RewriteFailed(service) ==
    \/ ~service.configured
    \/ service.raises # "none"
    \/ service.status # HTTP_OK
    \/ service.candidates # "present"
    \/ ~\E i \in 1..(Len(service.text) - 1) :
            service.text[i] = "\n" /\ service.text[i + 1] = "\n"

\* C29: whenever the rewrite call fails, in any of its failure modes, the
\* text that extract_caption goes on with is exactly the original caption:
\* it is the result of the call, the content written to the caption file and
\* the text returned when the write goes through; and extract_caption always
\* returns a caption, so that the phase does not fail.
C29_RewriteFailureKeepsOriginal ==
    (disk.kind = "rewrite" /\ RewriteFailed(disk.service))
        => /\ disk.pc # "found" => disk.enhanced_text = Val(disk.original)
           /\ disk.pc = "returned"
                  => /\ disk.returned \in {Val(disk.original), DefaultCaption}
                     /\ disk.file \in {Val(disk.original), NoError}
                     /\ disk.file = NoError <=> disk.returned = DefaultCaption

\* the service answered with a status other than 200 and with a body that
\* would have had two parts, and the original caption was written
C29_Witness ==
    /\ disk.kind = "rewrite"
    /\ disk.pc = "returned"
    /\ disk.service.configured
    /\ disk.service.raises = "none"
    /\ disk.service.status # HTTP_OK
    /\ disk.service.candidates = "present"
    /\ Len(split_blank(disk.service.text)) >= 2
    /\ disk.file = Val(disk.original)
    /\ disk.returned = Val(disk.original)

\* C34 as stated: when the written file has a hashtag line, every token of
\* that line starts with "#".
C34_HashtagLineOnlyHashtags ==
    HasHashtagLine
        => \A i \in 1..Len(split(LastLine)) :
               startswith(split(LastLine)[i], "#")

(***************************************************************************)
(* SpecLoad: load_account_config (tittle.py:200-227) as a function of the  *)
(* two files of the account directory, and what process_single_account     *)
(* does with its result (831-838).                                         *)
(***************************************************************************)

\* the longest cookie list
MaxCookies == 2

\* custom.json: no such file, a file that json.load rejects, a JSON value
\* that is an array or a scalar, or a JSON object with some of the keys.
\* has: the keys the object has.
ConfigFiles ==
    {[kind |-> k, has |-> {}, username |-> "", use_custom_caption |-> FALSE] :
        k \in {"absent", "invalid", "list", "scalar"}}
    \cup {[kind |-> "object", has |-> h,
           username |-> IF "username" \in h THEN "u" ELSE "",
           use_custom_caption |-> "use_custom_caption" \in h /\ b] :
             h \in SUBSET {"username", "use_custom_caption"}, b \in BOOLEAN}

\* cookies.json: no such file, a file that json.load rejects, a JSON value
\* that is an object or a scalar, or a JSON array of cookies
CookieFiles ==
    {[kind |-> k, items |-> <<>>] :
        k \in {"absent", "invalid", "object", "scalar"}}
    \cup {[kind |-> "list", items |-> s] :
             s \in UNION {[1..n -> {"c1", "c2"}] : n \in 0..MaxCookies}}

\* the return value None (227)
NoConfig == [tag |-> "none"]

\* load_account_config(account_dir) (200-227): every raise of the try block
\* (205, 209, 211, 215, and json.load at 207 and 213) ends in `return None`;
\* config.get(key, default) gives the default for a key the object lacks
load_account_config(config, cookies) ==
    IF config.kind = "absent" THEN NoConfig
    ELSE IF config.kind = "invalid" THEN NoConfig
    ELSE IF config.kind # "object" THEN NoConfig
    ELSE IF cookies.kind = "absent" THEN NoConfig
    ELSE IF cookies.kind = "invalid" THEN NoConfig
    ELSE IF cookies.kind # "list" THEN NoConfig
    ELSE [tag |-> "config",
          username |-> IF "username" \in config.has
                       THEN config.username ELSE "@unknown",
          use_custom_caption |-> IF "use_custom_caption" \in config.has
                                 THEN config.use_custom_caption ELSE FALSE,
          cookies |-> cookies.items]

\* disk.config and disk.cookies: the two files.  disk.pc: "found" before
\* line 831, "loaded" after it, "failed" after the return False of line 837,
\* "phases" when the job goes on to its phases.  disk.account_config: the
\* result of line 831.
InitLoad ==
    /\ SchedulerOff
    /\ \E config \in ConfigFiles, cookies \in CookieFiles :
          disk = [kind |-> "load", config |-> config, cookies |-> cookies,
                  pc |-> "found", account_config |-> NoConfig]

\* account_config = load_account_config(account_dir) (831)
LoadConfig ==
    /\ disk.kind = "load"
    /\ disk.pc = "found"
    /\ disk' = [disk EXCEPT
                   !.pc = "loaded",
                   !.account_config =
                       load_account_config(disk.config, disk.cookies)]
    /\ DiskQuiet

\* if not account_config: return False (835-837)
LoadRejected ==
    /\ disk.kind = "load"
    /\ disk.pc = "loaded"
    /\ disk.account_config = NoConfig
    /\ disk' = [disk EXCEPT !.pc = "failed"]
    /\ DiskQuiet

\* the configuration is there: the job goes on to its phases, which hand
\* account_config["cookies"] to the browser (850, 904, 662)
LoadAccepted ==
    /\ disk.kind = "load"
    /\ disk.pc = "loaded"
    /\ disk.account_config # NoConfig
    /\ disk' = [disk EXCEPT !.pc = "phases"]
    /\ DiskQuiet

NextLoad == LoadConfig \/ LoadRejected \/ LoadAccepted

SpecLoad == InitLoad /\ [][NextLoad]_vars

\* C31 as stated: the load fails whenever custom.json is absent or not an
\* object, or cookies.json is absent, not a list, or an empty list; and an
\* account that was loaded has a non-empty cookie list.
C31_LoadFailsOnBadFiles ==
    (disk.kind = "load" /\ disk.pc # "found")
        => /\ (\/ disk.config.kind # "object"
               \/ disk.cookies.kind # "list"
               \/ disk.cookies.items = <<>>)
                  => disk.account_config = NoConfig
           /\ disk.account_config # NoConfig
                  => disk.account_config.cookies # <<>>

(***************************************************************************)
(* Claims about the selection and the rotation.                            *)
(***************************************************************************)

\* the accounts of a listing
Listed(account_dirs) == {account_dirs[i] : i \in 1..Len(account_dirs)}

\* C33: for every non-empty listing and every state of LAST_RUN_FILE the
\* selected account is one of the listing, and it is the first of the
\* listing when the file is missing, unreadable, without a last_account, or
\* names an account that is not in the listing.
C33_SelectionDefaultsToFirst ==
    Selected
        => /\ account \in Listed(fleet)
           /\ (\/ store \in {StoreMissing, StoreCorrupt, StoreNoField}
               \/ store.last_account \notin Listed(fleet))
                  => account = fleet[1]

\* the record names an account that has left the fleet, and the first of the
\* two listed accounts is selected
C33_Witness ==
    /\ Selected
    /\ Len(fleet) = 2
    /\ store.kind = "rec"
    /\ store.last_account \notin Listed(fleet)
    /\ store.last_account < fleet[1]
    /\ account = fleet[1]

\* the account after a in the listing, the first following the last
Successor(account_dirs, a) ==
    LET i == CHOOSE k \in 1..Len(account_dirs) : account_dirs[k] = a
    IN  account_dirs[IF i = Len(account_dirs) THEN 1 ELSE i + 1]

NoFile == [tag |-> "none"]

\* disk.use_custom_caption: the account's caption policy (220).
\* disk.hashtags: the account has hashtags configured (218).  disk.file:
\* the caption file.  disk.fresh: extract_caption of this job has written
\* it.  disk.pc: "extract", "clean", "transform", "publish", and "typed" or
\* "failed" at the end.  disk.failed_in: the phase that returned False.
\* disk.full_caption: what the upload typed, the stripped caption and
\* whether the account's hashtags follow it.  When phase 3 begins
\* caption_{account}.txt holds nothing, after the clean_temp_files of line
\* 838, or the caption of an earlier job whose os.remove failed (173-178).
InitPublish ==
    /\ SchedulerOff
    /\ \E policy \in BOOLEAN, hashtags \in BOOLEAN,
          file \in {NoFile, Val(<<"H", "i">>), Val(<<"#", "a">>)} :
          disk = [kind |-> "publish", use_custom_caption |-> policy,
                  hashtags |-> hashtags, file |-> file, fresh |-> FALSE,
                  pc |-> "extract", failed_in |-> 0, full_caption |-> NoFile]

\* phase 3 returns False before extract_caption is called: no browser, the
\* navigation failed, a login page (899-912)
ExtractPhaseFails ==
    /\ disk.kind = "publish"
    /\ disk.pc = "extract"
    /\ disk' = [disk EXCEPT !.pc = "failed", !.failed_in = 3]
    /\ DiskQuiet

\* extract_caption writes the caption it found or rewrote (336-340): what
\* enhance_caption_with_gemini returns for the captions found
ExtractWrites ==
    /\ disk.kind = "publish"
    /\ disk.pc = "extract"
    /\ \E original_caption \in OriginalCaptions, service \in Services :
          LET enhanced_text ==
                  enhance_caption_with_gemini(original_caption, service)
          IN  disk' = [disk EXCEPT !.pc = "clean",
                                   !.file = Val(enhanced_text),
                                   !.fresh = TRUE]
    /\ DiskQuiet

\* extract_caption raises before it has written: query_selector_all, or
\* open() for writing.  The except branch returns the default caption
\* (341-343), which process_single_account does not look at (914).
ExtractRaises ==
    /\ disk.kind = "publish"
    /\ disk.pc = "extract"
    /\ disk' = [disk EXCEPT !.pc = "clean"]
    /\ DiskQuiet

\* clean_caption_file(account_name) (915): a missing file is logged and left
\* missing (350-352); phase 3 is through
CleanStep ==
    /\ disk.kind = "publish"
    /\ disk.pc = "clean"
    /\ disk' = [disk EXCEPT
                   !.pc = "transform",
                   !.file = IF @ = NoFile THEN NoFile
                            ELSE Val(clean_caption_file(@.val))]
    /\ DiskQuiet

\* phase 4 (926-935), which does not touch the caption file
TransformEnds ==
    /\ disk.kind = "publish"
    /\ disk.pc = "transform"
    /\ \E process_success \in BOOLEAN :
          disk' = IF process_success THEN [disk EXCEPT !.pc = "publish"]
                  ELSE [disk EXCEPT !.pc = "failed", !.failed_in = 4]
    /\ DiskQuiet

\* full_caption (773-780): caption_text.strip(), followed by a sample of
\* the account's hashtags when it has some
FullCaption(caption_text, hashtags) ==
    [text |-> strip(caption_text), tags |-> hashtags]

\* the caption step of the upload (766-788): the custom caption (here the
\* text "Hi !"), or the content of the caption file; open() on a missing
\* file raises, which the except of line 785 turns into return False
PublishCaption ==
    /\ disk.kind = "publish"
    /\ disk.pc = "publish"
    /\ disk' = IF disk.use_custom_caption
               THEN [disk EXCEPT !.pc = "typed",
                                 !.full_caption =
                                     FullCaption(<<"H", "i", " ", "!">>,
                                                 disk.hashtags)]
               ELSE IF disk.file # NoFile
               THEN [disk EXCEPT !.pc = "typed",
                                 !.full_caption =
                                     FullCaption(disk.file.val, disk.hashtags)]
               ELSE [disk EXCEPT !.pc = "failed", !.failed_in = 5]
    /\ DiskQuiet

NextPublish ==
    \/ ExtractPhaseFails \/ ExtractWrites \/ ExtractRaises \/ CleanStep
    \/ TransformEnds \/ PublishCaption

SpecPublish == InitPublish /\ [][NextPublish]_vars

\* C35 as stated: once phase 3 has gone through, extract_caption of this job
\* has written the caption file; so when phase 5 starts for an account that
\* uses the extracted caption, the file is there and is this job's.
C35_CaptionFileBeforePublish ==
    (disk.kind = "publish" /\ disk.pc \in {"transform", "publish"})
        => /\ disk.fresh
           /\ ~disk.use_custom_caption => disk.file # NoFile
====
